---- MODULE Spec2Model ----
(***************************************************************************)
(* State-machine model of the RDS / RBDS decoder of libv4l2rds.c.          *)
(*                                                                         *)
(* The decoder state (struct rds_private_state, whose first member is the  *)
(* public struct v4l2_rds) is one record, priv.  Every C function that     *)
(* takes the private state is an operator from a state record (and its     *)
(* other arguments) to the state record it leaves behind, together with    *)
(* the value it returns.  Bit sets (valid_fields, the returned mask) are   *)
(* sets of flag names: the flags are distinct single bits, so |, & ~ and   *)
(* the test for zero are set union, set difference and emptiness.          *)
(***************************************************************************)
EXTENDS Integers, Sequences, FiniteSets, TLC

VARIABLES
    priv,       \* struct rds_private_state of the one decoder instance
    ret,        \* value returned by the last v4l2_rds_add call ({} after a reset)
    air,        \* blocks of the group being received that are still to arrive
    last,       \* history: the last call made on the decoder
    run,        \* history: how many of the last calls were, in this order, clean
                \* blocks A, B, C|C', D (0..4; 4: the last four calls were such a run)
    glog,       \* history: the groups completed since the last reset, oldest first
    calls,      \* history: number of v4l2_rds_add calls since creation
    was_reset,  \* history: TRUE once v4l2_rds_reset has been called
    start       \* history: the decoder as the A block of the current run found it

vars == <<priv, ret, air, last, run, glog, calls, was_reset, start>>

---------------------------------------------------------------------------
(* Bounds of the model *)

\* number of v4l2_rds_add calls of the block-level specification
MaxCalls == 6
\* number of groups sent in the specifications of PI, of PTY and TP, of the
\* slow labelling and time groups, and of the TMC groups
MaxPiGroups == 3
MaxPtyGroups == 3
MaxSlowGroups == 3
MaxTmcGroups == 4
\* number of groups sent in the specification of the PS name
MaxPsGroups == 8
\* number of groups sent in the specification of the alternative frequencies
MaxAfGroups == 4
\* number of groups sent in the specification of the radio text
MaxRtGroups == 3
\* number of groups sent in the specification of the open data announcements
MaxOdaGroups == 3
\* number of groups sent in the specification of the TMC messages
MaxMsgGroups == 6
MaxAsmCalls == 5
MaxDiGroups == 5
MaxLfGroups == 3
MaxTextGroups == 17
MaxMgGroups == 8
MaxSysGroups == 4
MaxIdleGroups == 3
MaxPtynGroups == 4
\* number of v4l2_rds_add calls of the resynchronisation specification
MaxSyncCalls == 10
\* number of groups sent in the specification of the continuity index
MaxCiGroups == 4
\* number of groups sent in the specification of the optional slots
MaxSlotGroups == 10

---------------------------------------------------------------------------
(* C integer arithmetic on naturals.  The model checker's integers have 32  *)
(* bits with a sign: quantities of type uint32_t that use bit 31 are held   *)
(* scaled (see tmc_buffer and tm_gmtoff).                                   *)

RECURSIVE BitAnd(_, _)
BitAnd(a, b) ==
    IF a = 0 \/ b = 0 THEN 0
    ELSE (a % 2) * (b % 2) + 2 * BitAnd(a \div 2, b \div 2)

RECURSIVE BitOr(_, _)
BitOr(a, b) ==
    IF a = 0 THEN b
    ELSE IF b = 0 THEN a
    ELSE (IF a % 2 = 1 \/ b % 2 = 1 THEN 1 ELSE 0) + 2 * BitOr(a \div 2, b \div 2)

Shl(a, n) == a * (2 ^ n)
Shr(a, n) == a \div (2 ^ n)
U8(x) == x % 256
U16(x) == x % 65536
\* conversion of an integer to bool
ToBool(x) == x # 0

---------------------------------------------------------------------------
(* Constants of the block status byte and of the decoder *)

V4L2_RDS_BLOCK_MSK == 7
V4L2_RDS_BLOCK_CORRECTED == 64
V4L2_RDS_BLOCK_ERROR == 128

RDS_EMPTY == 0
RDS_A_RECEIVED == 1
RDS_B_RECEIVED == 2
RDS_C_RECEIVED == 3

\* group_version is a char: 'A', 'B', or 0 in a zeroed group
VersionA == 65
VersionB == 66

\* the flags of valid_fields and of the mask v4l2_rds_add returns
V4L2_RDS_PI == "PI"
V4L2_RDS_PTY == "PTY"
V4L2_RDS_TP == "TP"
V4L2_RDS_PS == "PS"
V4L2_RDS_TA == "TA"
V4L2_RDS_DI == "DI"
V4L2_RDS_MS == "MS"
V4L2_RDS_PTYN == "PTYN"
V4L2_RDS_RT == "RT"
V4L2_RDS_TIME == "TIME"
V4L2_RDS_AF == "AF"
V4L2_RDS_ECC == "ECC"
V4L2_RDS_LC == "LC"
V4L2_RDS_ODA == "ODA"
V4L2_RDS_TMC_SG == "TMC_SG"
V4L2_RDS_TMC_MG == "TMC_MG"
V4L2_RDS_TMC_SYS == "TMC_SYS"

\* capacities of the AF and ODA sets
MAX_AF_CNT == 25
MAX_ODA_CNT == 18

\* bits of the decoder identification
V4L2_RDS_FLAG_STEREO == 1
V4L2_RDS_FLAG_ARTIFICIAL_HEAD == 2
V4L2_RDS_FLAG_COMPRESSED == 4
V4L2_RDS_FLAG_STATIC_PTY == 8

\* bits of block B's lsb that select the kind of an 8A group
V4L2_TMC_TUNING_INFO == 16
V4L2_TMC_SINGLE_GROUP == 8

---------------------------------------------------------------------------
(* Records of the decoder *)

\* struct v4l2_rds_data: one raw block
ZeroData == [lsb |-> 0, msb |-> 0, block |-> 0]

\* struct v4l2_rds_group, zeroed
ZeroGroup ==
    [pi |-> 0, group_version |-> 0, group_id |-> 0, data_b_lsb |-> 0,
     data_c_msb |-> 0, data_c_lsb |-> 0, data_d_msb |-> 0, data_d_lsb |-> 0]

\* struct v4l2_rds_statistics, zeroed
ZeroStatistics ==
    [block_cnt |-> 0, group_cnt |-> 0, block_error_cnt |-> 0,
     group_error_cnt |-> 0, block_corrected_cnt |-> 0,
     group_type_cnt |-> [g \in 0 .. 15 |-> 0]]

\* The AF and ODA sets hold their size and the array entries below it (the
\* entries past the size are never read).

\* struct v4l2_rds_tmc_msg, zeroed; additional is the array of additional
\* fields up to its size (the entries past it are zero)
ZeroTmcMsg ==
    [length |-> 0, sid |-> 0, extent |-> 0, dp |-> 0, event |-> 0,
     location |-> 0, follow_diversion |-> FALSE, neg_direction |-> FALSE,
     additional |-> <<>>]

\* the broken-down time handed to mktime, standing for the time_t it yields
\* (from_mktime is FALSE for the time_t 0 of a zeroed handle)
ZeroTime == [tm_min |-> 0, tm_hour |-> 0, tm_mday |-> 0, tm_mon |-> 0,
             tm_year |-> 0, tm_gmtoff |-> [wraps |-> 0, rest |-> 0], tm_isdst |-> 0, from_mktime |-> FALSE]

\* struct v4l2_rds as calloc leaves it, with the variant flag set
ZeroHandle(is_rbds) ==
    [is_rbds |-> is_rbds,
     decode_information |-> {},
     valid_fields |-> {},
     pi |-> 0,
     ps |-> [i \in 0 .. 7 |-> 0],
     pty |-> 0,
     ptyn |-> [i \in 0 .. 7 |-> 0],
     ptyn_ab_flag |-> FALSE,
     rt_ab_flag |-> FALSE,
     ta |-> FALSE,
     tp |-> FALSE,
     ms |-> FALSE,
     di |-> 0,
     ecc |-> 0,
     lc |-> 0,
     time |-> ZeroTime,
     rt |-> [i \in 0 .. 63 |-> 0],
     rt_length |-> 0,
     rds_statistics |-> ZeroStatistics,
     rds_oda |-> [size |-> 0, oda |-> <<>>],
     rds_af |-> [size |-> 0, announced_af |-> 0, af |-> <<>>],
     tmc |-> [ltn |-> 0, afi |-> FALSE, enhanced_mode |-> FALSE, mgs |-> 0,
              sid |-> 0, gap |-> 0, t_a |-> 0, t_w |-> 0, t_d |-> 0,
              tmc_msg |-> ZeroTmcMsg]]

\* struct rds_private_state as calloc leaves it, with the variant flag set
v4l2_rds_create(is_rbds) ==
    [handle |-> ZeroHandle(is_rbds),
     decode_state |-> RDS_EMPTY,
     new_pi |-> 0,
     new_ps |-> [i \in 0 .. 7 |-> 0],
     new_ps_valid |-> [i \in 0 .. 7 |-> 0],
     new_pty |-> 0,
     new_ptyn |-> [h \in 0 .. 1 |-> [i \in 0 .. 3 |-> 0]],
     new_ptyn_valid |-> [h \in 0 .. 1 |-> FALSE],
     new_rt |-> [i \in 0 .. 63 |-> 0],
     next_rt_segment |-> 0,
     new_di |-> 0,
     next_di_segment |-> 0,
     new_ecc |-> 0,
     new_lc |-> 0,
     new_mjd |-> 0,
     utc_hour |-> 0,
     utc_minute |-> 0,
     utc_offset |-> 0,
     continuity_id |-> 0,
     grp_seq_id |-> 0,
     optional_tmc |-> [i \in 0 .. 3 |-> 0],
     prev_tmc_group |-> ZeroGroup,
     prev_tmc_sys_group |-> ZeroGroup,
     new_tmc_msg |-> ZeroTmcMsg,
     rds_group |-> ZeroGroup,
     rds_data_raw |-> [i \in 0 .. 3 |-> ZeroData]]

---------------------------------------------------------------------------
(* Decoding of the four blocks of a group *)

\* Faulty variant of rds_decode_a: a PI that differs from the published one
\* is published at once.  C6 fails with it.
rds_decode_a_at_once(priv_state, rds_data) ==
    LET pi == U16(BitOr(Shl(rds_data.msb, 8), rds_data.lsb))
        p1 == [priv_state EXCEPT !.rds_group.pi = pi]
    IN  IF pi # priv_state.handle.pi
        THEN [priv_state |-> [p1 EXCEPT !.handle.pi = pi,
                                        !.handle.valid_fields = @ \cup {V4L2_RDS_PI}],
              updated_fields |-> {V4L2_RDS_PI}]
        ELSE [priv_state |-> p1, updated_fields |-> {}]

\* block A carries the PI code, accepted when received twice in a row
rds_decode_a(priv_state, rds_data) ==
    LET handle == priv_state.handle
        pi == U16(BitOr(Shl(rds_data.msb, 8), rds_data.lsb))
        p1 == [priv_state EXCEPT !.rds_group.pi = pi]
    IN  IF pi # handle.pi /\ pi = priv_state.new_pi
        THEN [priv_state |-> [p1 EXCEPT !.handle.pi = pi,
                                        !.handle.valid_fields = @ \cup {V4L2_RDS_PI}],
              updated_fields |-> {V4L2_RDS_PI}]
        ELSE IF pi # handle.pi /\ pi # priv_state.new_pi
        THEN [priv_state |-> [p1 EXCEPT !.new_pi = pi], updated_fields |-> {}]
        ELSE [priv_state |-> p1, updated_fields |-> {}]

\* traffic_prog = (bool)rds_data->msb & 0x04: the cast binds tighter than &
traffic_prog_of(msb) == ToBool(BitAnd(IF ToBool(msb) THEN 1 ELSE 0, 4))

\* Faulty variant of rds_decode_b: a PTY equal to the one the handle holds is
\* marked valid too.  C7, as amended, fails with it.
rds_decode_b_marking_known(priv_state, rds_data) ==
    LET traffic_prog == traffic_prog_of(rds_data.msb)
        upd_tp == IF priv_state.handle.tp # traffic_prog THEN {V4L2_RDS_TP} ELSE {}
        p1 == [priv_state EXCEPT
                 !.rds_group.group_id = Shr(rds_data.msb, 4),
                 !.rds_group.group_version =
                     IF ToBool(BitAnd(rds_data.msb, 8)) THEN VersionB ELSE VersionA,
                 !.handle.tp = traffic_prog,
                 !.handle.valid_fields = @ \cup {V4L2_RDS_TP},
                 !.rds_group.data_b_lsb = BitAnd(rds_data.lsb, 31)]
        pty == BitAnd(U8(BitOr(Shl(rds_data.msb, 3), Shr(rds_data.lsb, 5))), 31)
    IN  IF p1.handle.pty = pty
        THEN [priv_state |-> [p1 EXCEPT !.new_pty = pty,
                                        !.handle.valid_fields = @ \cup {V4L2_RDS_PTY}],
              updated_fields |-> upd_tp]
        ELSE IF p1.new_pty = pty
        THEN [priv_state |-> [p1 EXCEPT !.handle.pty = p1.new_pty,
                                        !.handle.valid_fields = @ \cup {V4L2_RDS_PTY}],
              updated_fields |-> upd_tp \cup {V4L2_RDS_PTY}]
        ELSE [priv_state |-> [p1 EXCEPT !.new_pty = pty], updated_fields |-> upd_tp]

\* block B carries group id, version, TP, PTY and five group-dependent bits
rds_decode_b(priv_state, rds_data) ==
    LET traffic_prog == traffic_prog_of(rds_data.msb)
        tp_changed == priv_state.handle.tp # traffic_prog
        upd_tp == IF tp_changed THEN {V4L2_RDS_TP} ELSE {}
        p1 == [priv_state EXCEPT
                 !.rds_group.group_id = Shr(rds_data.msb, 4),
                 !.rds_group.group_version =
                     IF ToBool(BitAnd(rds_data.msb, 8)) THEN VersionB ELSE VersionA,
                 !.handle.tp = traffic_prog,
                 !.handle.valid_fields = @ \cup {V4L2_RDS_TP},
                 !.rds_group.data_b_lsb = BitAnd(rds_data.lsb, 31)]
        pty == BitAnd(U8(BitOr(Shl(rds_data.msb, 3), Shr(rds_data.lsb, 5))), 31)
    IN  IF p1.handle.pty = pty
        THEN [priv_state |-> [p1 EXCEPT !.new_pty = pty], updated_fields |-> upd_tp]
        ELSE IF p1.new_pty = pty
        THEN [priv_state |-> [p1 EXCEPT !.handle.pty = p1.new_pty,
                                        !.handle.valid_fields = @ \cup {V4L2_RDS_PTY}],
              updated_fields |-> upd_tp \cup {V4L2_RDS_PTY}]
        ELSE [priv_state |-> [p1 EXCEPT !.new_pty = pty], updated_fields |-> upd_tp]

\* block C is stored raw
rds_decode_c(priv_state, rds_data) ==
    [priv_state EXCEPT !.rds_group.data_c_msb = rds_data.msb,
                       !.rds_group.data_c_lsb = rds_data.lsb]

\* block D is stored raw
rds_decode_d(priv_state, rds_data) ==
    [priv_state EXCEPT !.rds_group.data_d_msb = rds_data.msb,
                       !.rds_group.data_d_lsb = rds_data.lsb]

\* Faulty variant of rds_compare_group: block D is not compared.  C9
\* fails with it.
rds_compare_group_without_d(a, b) ==
    /\ a.pi = b.pi
    /\ a.group_version = b.group_version
    /\ a.group_id = b.group_id
    /\ a.data_b_lsb = b.data_b_lsb
    /\ a.data_c_lsb = b.data_c_lsb
    /\ a.data_c_msb = b.data_c_msb

\* equality of two groups, field by field
rds_compare_group(a, b) ==
    IF a.pi # b.pi THEN FALSE
    ELSE IF a.group_version # b.group_version THEN FALSE
    ELSE IF a.group_id # b.group_id THEN FALSE
    ELSE IF a.data_b_lsb # b.data_b_lsb THEN FALSE
    ELSE IF a.data_c_lsb # b.data_c_lsb \/ a.data_c_msb # b.data_c_msb THEN FALSE
    ELSE IF a.data_d_lsb # b.data_d_lsb \/ a.data_d_msb # b.data_d_msb THEN FALSE
    ELSE TRUE

get_bitmask(bit_cnt) == Shl(1, bit_cnt) - 1

---------------------------------------------------------------------------
(* TMC *)

\* slot >> n for a slot of optional_tmc (held divided by 16), n >= 4
slot_shr(slot, n) == Shr(slot, n - 4)

\* lengths of the additional data fields by label (ISO 14819-1 sect. 5.5.1)
additional_lut == <<3, 3, 5, 5, 5, 8, 8, 8, 8, 11, 16, 16, 16, 16, 0, 0>>

\* One pass of the loop body of rds_tmc_decode_additional and the passes that
\* follow it.  s holds the loop's variables: i, pos, block_idx and the fields
\* stored so far; optional and length are the staging buffer and slot count.
\* The result is the final array of fields.
RECURSIVE additional_loop(_, _, _)
additional_loop(s, optional, length) ==
    IF ~(s.i < length) THEN s.fields
    ELSE
    LET data_len == 28
        label_len == 4
        \* the label: a record [brk, label, pos, block_idx]
        lab ==
            IF s.pos + label_len > data_len
            THEN LET o_len == U8(label_len - (data_len - s.pos))
                     len == U8(data_len - s.pos)
                     label0 == U8(BitAnd(slot_shr(optional[s.block_idx],
                                             32 - s.pos - len + o_len),
                                         get_bitmask(len + o_len)))
                     bi == U8(s.block_idx + 1)
                 IN  IF bi >= length
                     THEN [brk |-> TRUE, label |-> label0, pos |-> s.pos,
                           block_idx |-> bi]
                     ELSE [brk |-> FALSE,
                           label |-> U8(BitOr(label0, slot_shr(optional[bi], 32 - 0 - o_len))),
                           pos |-> 0, block_idx |-> bi]
            ELSE LET label0 == U8(BitAnd(slot_shr(optional[s.block_idx],
                                             32 - s.pos - label_len),
                                         get_bitmask(label_len)))
                     pos1 == U8(s.pos + (label_len % data_len))
                     bi == IF pos1 = 0 THEN U8(s.block_idx + 1) ELSE s.block_idx
                 IN  [brk |-> bi >= length, label |-> label0, pos |-> pos1,
                      block_idx |-> bi]
    IN  IF lab.brk THEN s.fields
        ELSE
        LET len0 == additional_lut[lab.label + 1]
            \* the data: a record [brk, label, data, pos, block_idx]
            dat ==
                IF lab.pos + len0 > data_len
                THEN LET o_len == U8(len0 - (data_len - lab.pos))
                         len == U8(data_len - lab.pos)
                         data0 == U16(BitAnd(slot_shr(optional[lab.block_idx],
                                                 32 - lab.pos - len + o_len),
                                             get_bitmask(len + o_len)))
                         bi == U8(lab.block_idx + 1)
                     IN  IF bi >= length
                         THEN [brk |-> TRUE, label |-> lab.label, data |-> data0,
                               pos |-> lab.pos, block_idx |-> bi]
                         ELSE [brk |-> FALSE,
                               label |-> U8(BitOr(lab.label,
                                                  slot_shr(optional[bi], 32 - 0 - o_len))),
                               data |-> data0, pos |-> 0, block_idx |-> bi]
                ELSE LET data0 == U16(BitAnd(slot_shr(optional[lab.block_idx],
                                                 32 - lab.pos - len0),
                                             get_bitmask(len0)))
                     IN  [brk |-> FALSE, label |-> lab.label,
                          data |-> U16(data0 + (len0 % data_len)),
                          pos |-> lab.pos,
                          block_idx |-> IF lab.pos = 0 THEN U8(lab.block_idx + 1)
                                        ELSE lab.block_idx]
        IN  IF dat.brk THEN s.fields
            ELSE additional_loop(
                   [i |-> s.i + 1, pos |-> dat.pos, block_idx |-> dat.block_idx,
                    fields |-> IF dat.label = 15 THEN s.fields
                               ELSE Append(s.fields,
                                           [label |-> dat.label, data |-> dat.data])],
                   optional, length)

\* decodes the additional fields of the published multi-group message
rds_tmc_decode_additional(priv_state) ==
    [priv_state EXCEPT !.handle.tmc.tmc_msg.additional =
        additional_loop([i |-> 0, pos |-> 0, block_idx |-> 0, fields |-> <<>>],
                        priv_state.optional_tmc,
                        priv_state.handle.tmc.tmc_msg.length)]

\* Faulty variant of rds_decode_tmc_system: the timing parameters of
\* variant 1 are stored in either mode.  C27 fails with it.
rds_decode_tmc_system_timing_always(priv_state) ==
    LET group == priv_state.rds_group
        variant_code == Shr(group.data_c_msb, 6)
    IN  IF ~rds_compare_group(priv_state.prev_tmc_sys_group, priv_state.rds_group)
        THEN [priv_state |-> [priv_state EXCEPT !.prev_tmc_sys_group = priv_state.rds_group],
              updated_fields |-> {}]
        ELSE IF variant_code = 0
        THEN [priv_state |-> [priv_state EXCEPT
                 !.handle.tmc.ltn =
                     U8(BitOr(Shl(BitAnd(group.data_c_msb, 15), 2),
                              Shr(group.data_c_lsb, 6))),
                 !.handle.tmc.afi = ToBool(BitAnd(group.data_c_lsb, 32)),
                 !.handle.tmc.enhanced_mode = ToBool(BitAnd(group.data_c_lsb, 16)),
                 !.handle.tmc.mgs = BitAnd(group.data_c_lsb, 15)],
              updated_fields |-> {V4L2_RDS_TMC_SYS}]
        ELSE IF variant_code = 1
        THEN LET p1 == [priv_state EXCEPT
                          !.handle.tmc.gap = Shr(BitAnd(group.data_c_msb, 48), 4),
                          !.handle.tmc.sid =
                              U8(BitOr(Shl(BitAnd(group.data_c_msb, 15), 2),
                                       Shr(group.data_c_lsb, 6)))]
             IN  IF FALSE
                 THEN [priv_state |-> p1, updated_fields |-> {V4L2_RDS_TMC_SYS}]
                 ELSE [priv_state |-> [p1 EXCEPT
                          !.handle.tmc.t_a = Shr(BitAnd(group.data_c_lsb, 48), 4),
                          !.handle.tmc.t_w = Shr(BitAnd(group.data_c_lsb, 12), 2),
                          !.handle.tmc.t_d = BitAnd(group.data_c_lsb, 3)],
                       updated_fields |-> {V4L2_RDS_TMC_SYS}]
        ELSE [priv_state |-> priv_state, updated_fields |-> {V4L2_RDS_TMC_SYS}]

\* TMC system information of a 3A group, accepted when received twice
rds_decode_tmc_system(priv_state) ==
    LET group == priv_state.rds_group
        variant_code == Shr(group.data_c_msb, 6)
    IN  IF ~rds_compare_group(priv_state.prev_tmc_sys_group, priv_state.rds_group)
        THEN [priv_state |-> [priv_state EXCEPT !.prev_tmc_sys_group = priv_state.rds_group],
              updated_fields |-> {}]
        ELSE IF variant_code = 0
        THEN [priv_state |-> [priv_state EXCEPT
                 !.handle.tmc.ltn =
                     U8(BitOr(Shl(BitAnd(group.data_c_msb, 15), 2),
                              Shr(group.data_c_lsb, 6))),
                 !.handle.tmc.afi = ToBool(BitAnd(group.data_c_lsb, 32)),
                 !.handle.tmc.enhanced_mode = ToBool(BitAnd(group.data_c_lsb, 16)),
                 !.handle.tmc.mgs = BitAnd(group.data_c_lsb, 15)],
              updated_fields |-> {V4L2_RDS_TMC_SYS}]
        ELSE IF variant_code = 1
        THEN LET p1 == [priv_state EXCEPT
                          !.handle.tmc.gap = Shr(BitAnd(group.data_c_msb, 48), 4),
                          !.handle.tmc.sid =
                              U8(BitOr(Shl(BitAnd(group.data_c_msb, 15), 2),
                                       Shr(group.data_c_lsb, 6)))]
             IN  IF ~priv_state.handle.tmc.enhanced_mode
                 THEN [priv_state |-> p1, updated_fields |-> {V4L2_RDS_TMC_SYS}]
                 ELSE [priv_state |-> [p1 EXCEPT
                          !.handle.tmc.t_a = Shr(BitAnd(group.data_c_lsb, 48), 4),
                          !.handle.tmc.t_w = Shr(BitAnd(group.data_c_lsb, 12), 2),
                          !.handle.tmc.t_d = BitAnd(group.data_c_lsb, 3)],
                       updated_fields |-> {V4L2_RDS_TMC_SYS}]
        ELSE [priv_state |-> priv_state, updated_fields |-> {V4L2_RDS_TMC_SYS}]

\* Faulty variant of rds_decode_tmc_single_group: the low byte of the
\* location is taken from the lsb of block D.  C20 fails with it.
rds_decode_tmc_single_group_location_d(priv_state, uninit) ==
    LET grp == priv_state.rds_group
        msg == [uninit.msg EXCEPT
                  !.dp = BitAnd(grp.data_b_lsb, 7),
                  !.follow_diversion = ToBool(BitAnd(grp.data_c_msb, 128)),
                  !.neg_direction = ToBool(BitAnd(grp.data_c_msb, 64)),
                  !.extent = Shr(BitAnd(grp.data_c_msb, 56), 3),
                  !.event = U16(BitOr(Shl(BitAnd(grp.data_c_msb, 7), 8), grp.data_c_lsb)),
                  !.location = U16(BitOr(Shl(grp.data_d_msb, 8), grp.data_d_lsb))]
    IN  [priv_state |-> [priv_state EXCEPT
            !.handle.tmc.tmc_msg = msg,
            !.handle.valid_fields = (@ \cup {V4L2_RDS_TMC_SG}) \ {V4L2_RDS_TMC_MG}],
         updated_fields |-> {V4L2_RDS_TMC_SG}]

\* A single-group TMC message.  The local msg is not initialised: its length,
\* sid and additional fields, which the function never assigns, keep whatever
\* the stack held (uninit.msg).
rds_decode_tmc_single_group(priv_state, uninit) ==
    LET grp == priv_state.rds_group
        msg == [uninit.msg EXCEPT
                  !.dp = BitAnd(grp.data_b_lsb, 7),
                  !.follow_diversion = ToBool(BitAnd(grp.data_c_msb, 128)),
                  !.neg_direction = ToBool(BitAnd(grp.data_c_msb, 64)),
                  !.extent = Shr(BitAnd(grp.data_c_msb, 56), 3),
                  !.event = U16(BitOr(Shl(BitAnd(grp.data_c_msb, 7), 8), grp.data_c_lsb)),
                  !.location = U16(BitOr(Shl(grp.data_d_msb, 8), grp.data_c_lsb))]
    IN  [priv_state |-> [priv_state EXCEPT
            !.handle.tmc.tmc_msg = msg,
            !.handle.valid_fields = (@ \cup {V4L2_RDS_TMC_SG}) \ {V4L2_RDS_TMC_MG}],
         updated_fields |-> {V4L2_RDS_TMC_SG}]

\* The slot value c_msb << 28 | c_lsb << 20 | d_msb << 12 | d_lsb << 4, as the
\* build truncates it to the uint32_t slot.  Its 4 lsb are 0: the slots of
\* optional_tmc are held divided by 16 (slot_shr shifts such a slot).
tmc_buffer(grp) ==
    BitOr(BitOr(Shl(BitAnd(grp.data_c_msb, 15), 24), Shl(grp.data_c_lsb, 16)),
          BitOr(Shl(grp.data_d_msb, 8), grp.data_d_lsb))

\* memset(msg, 0, sizeof(msg)) with msg a pointer: the first 8 bytes of the
\* staging message, which hold length, sid, extent, dp, event and location
memset_tmc_msg(msg) ==
    [msg EXCEPT !.length = 0, !.sid = 0, !.extent = 0, !.dp = 0, !.event = 0,
                !.location = 0]

\* Faulty variant of rds_decode_tmc_multi_group: a subsequent group is
\* accepted whatever its sequence id.  C26 fails with it.
rds_decode_tmc_multi_group_any_sequence(priv_state) ==
    LET grp == priv_state.rds_group
        grp_seq_id == Shr(BitAnd(grp.data_c_msb, 48), 4)
        staged ==
            IF ToBool(BitAnd(grp.data_c_msb, 128))
            THEN [completed |-> FALSE,
                  priv_state |-> [priv_state EXCEPT
                    !.new_tmc_msg = [memset_tmc_msg(@) EXCEPT
                       !.follow_diversion = ToBool(BitAnd(grp.data_c_msb, 128)),
                       !.neg_direction = ToBool(BitAnd(grp.data_c_msb, 64)),
                       !.extent = Shr(BitAnd(grp.data_c_msb, 56), 3),
                       !.event = U16(BitOr(Shl(BitAnd(grp.data_c_msb, 7), 8),
                                           grp.data_c_lsb)),
                       !.location = U16(BitOr(Shl(grp.data_d_msb, 8), grp.data_c_lsb))],
                    !.continuity_id = BitAnd(grp.data_b_lsb, 7)]]
            ELSE IF ToBool(BitAnd(grp.data_c_msb, 64))
                    /\ BitAnd(grp.data_b_lsb, 7) = priv_state.continuity_id
            THEN [completed |-> grp_seq_id = 0,
                  priv_state |-> [priv_state EXCEPT
                    !.grp_seq_id = grp_seq_id,
                    !.optional_tmc[0] = tmc_buffer(grp),
                    !.new_tmc_msg.length = 1]]
            ELSE IF BitAnd(grp.data_b_lsb, 7) = priv_state.continuity_id
            THEN [completed |-> grp_seq_id = 0,
                  priv_state |-> [priv_state EXCEPT
                    !.grp_seq_id = grp_seq_id,
                    !.optional_tmc[priv_state.new_tmc_msg.length] = tmc_buffer(grp),
                    !.new_tmc_msg.length = U8(@ + 1)]]
            ELSE [completed |-> FALSE, priv_state |-> priv_state]
    IN  IF staged.completed
        THEN [priv_state |->
                LET p1 == rds_tmc_decode_additional(
                            [staged.priv_state EXCEPT
                               !.handle.tmc.tmc_msg = staged.priv_state.new_tmc_msg])
                IN  [p1 EXCEPT !.handle.valid_fields =
                                  (@ \cup {V4L2_RDS_TMC_MG}) \ {V4L2_RDS_TMC_SG}],
              updated_fields |-> {V4L2_RDS_TMC_MG}]
        ELSE [priv_state |-> staged.priv_state, updated_fields |-> {V4L2_RDS_TMC_MG}]

\* Faulty variant of rds_decode_tmc_multi_group: the sequence id is taken from
\* bits 12-14 of block 3, the second group indicator included.  C33 fails
\* with it.
rds_decode_tmc_multi_group_wide_sequence(priv_state) ==
    LET grp == priv_state.rds_group
        grp_seq_id == Shr(BitAnd(grp.data_c_msb, 112), 4)
        staged ==
            IF ToBool(BitAnd(grp.data_c_msb, 128))
            THEN [completed |-> FALSE,
                  priv_state |-> [priv_state EXCEPT
                    !.new_tmc_msg = [memset_tmc_msg(@) EXCEPT
                       !.follow_diversion = ToBool(BitAnd(grp.data_c_msb, 128)),
                       !.neg_direction = ToBool(BitAnd(grp.data_c_msb, 64)),
                       !.extent = Shr(BitAnd(grp.data_c_msb, 56), 3),
                       !.event = U16(BitOr(Shl(BitAnd(grp.data_c_msb, 7), 8),
                                           grp.data_c_lsb)),
                       !.location = U16(BitOr(Shl(grp.data_d_msb, 8), grp.data_c_lsb))],
                    !.continuity_id = BitAnd(grp.data_b_lsb, 7)]]
            ELSE IF ToBool(BitAnd(grp.data_c_msb, 64))
                    /\ BitAnd(grp.data_b_lsb, 7) = priv_state.continuity_id
            THEN [completed |-> grp_seq_id = 0,
                  priv_state |-> [priv_state EXCEPT
                    !.grp_seq_id = grp_seq_id,
                    !.optional_tmc[0] = tmc_buffer(grp),
                    !.new_tmc_msg.length = 1]]
            ELSE IF BitAnd(grp.data_b_lsb, 7) = priv_state.continuity_id
                    /\ grp_seq_id = priv_state.grp_seq_id - 1
            THEN [completed |-> grp_seq_id = 0,
                  priv_state |-> [priv_state EXCEPT
                    !.grp_seq_id = grp_seq_id,
                    !.optional_tmc[priv_state.new_tmc_msg.length] = tmc_buffer(grp),
                    !.new_tmc_msg.length = U8(@ + 1)]]
            ELSE [completed |-> FALSE, priv_state |-> priv_state]
    IN  IF staged.completed
        THEN [priv_state |->
                LET p1 == rds_tmc_decode_additional(
                            [staged.priv_state EXCEPT
                               !.handle.tmc.tmc_msg = staged.priv_state.new_tmc_msg])
                IN  [p1 EXCEPT !.handle.valid_fields =
                                  (@ \cup {V4L2_RDS_TMC_MG}) \ {V4L2_RDS_TMC_SG}],
              updated_fields |-> {V4L2_RDS_TMC_MG}]
        ELSE [priv_state |-> staged.priv_state, updated_fields |-> {V4L2_RDS_TMC_MG}]

\* a multi-group TMC message: first, second or subsequent group
rds_decode_tmc_multi_group(priv_state) ==
    LET grp == priv_state.rds_group
        grp_seq_id == Shr(BitAnd(grp.data_c_msb, 48), 4)
        staged ==
            IF ToBool(BitAnd(grp.data_c_msb, 128))
            THEN [completed |-> FALSE,
                  priv_state |-> [priv_state EXCEPT
                    !.new_tmc_msg = [memset_tmc_msg(@) EXCEPT
                       !.follow_diversion = ToBool(BitAnd(grp.data_c_msb, 128)),
                       !.neg_direction = ToBool(BitAnd(grp.data_c_msb, 64)),
                       !.extent = Shr(BitAnd(grp.data_c_msb, 56), 3),
                       !.event = U16(BitOr(Shl(BitAnd(grp.data_c_msb, 7), 8),
                                           grp.data_c_lsb)),
                       !.location = U16(BitOr(Shl(grp.data_d_msb, 8), grp.data_c_lsb))],
                    !.continuity_id = BitAnd(grp.data_b_lsb, 7)]]
            ELSE IF ToBool(BitAnd(grp.data_c_msb, 64))
                    /\ BitAnd(grp.data_b_lsb, 7) = priv_state.continuity_id
            THEN [completed |-> grp_seq_id = 0,
                  priv_state |-> [priv_state EXCEPT
                    !.grp_seq_id = grp_seq_id,
                    !.optional_tmc[0] = tmc_buffer(grp),
                    !.new_tmc_msg.length = 1]]
            ELSE IF BitAnd(grp.data_b_lsb, 7) = priv_state.continuity_id
                    /\ grp_seq_id = priv_state.grp_seq_id - 1
            THEN [completed |-> grp_seq_id = 0,
                  priv_state |-> [priv_state EXCEPT
                    !.grp_seq_id = grp_seq_id,
                    !.optional_tmc[priv_state.new_tmc_msg.length] = tmc_buffer(grp),
                    !.new_tmc_msg.length = U8(@ + 1)]]
            ELSE [completed |-> FALSE, priv_state |-> priv_state]
    IN  IF staged.completed
        THEN [priv_state |->
                LET p1 == rds_tmc_decode_additional(
                            [staged.priv_state EXCEPT
                               !.handle.tmc.tmc_msg = staged.priv_state.new_tmc_msg])
                IN  [p1 EXCEPT !.handle.valid_fields =
                                  (@ \cup {V4L2_RDS_TMC_MG}) \ {V4L2_RDS_TMC_SG}],
              updated_fields |-> {V4L2_RDS_TMC_MG}]
        ELSE [priv_state |-> staged.priv_state, updated_fields |-> {V4L2_RDS_TMC_MG}]

---------------------------------------------------------------------------
(* Group decoders *)

\* group 1: slow labelling codes (version A only)
rds_decode_group1(priv_state) ==
    LET grp == priv_state.rds_group
        variant_code == BitAnd(Shr(grp.data_c_msb, 4), 7)
    IN  IF grp.group_version # VersionA
        THEN [priv_state |-> priv_state, updated_fields |-> {}]
        ELSE IF variant_code = 0
        THEN IF grp.data_c_lsb = priv_state.new_ecc
             THEN [priv_state |-> [priv_state EXCEPT
                      !.handle.valid_fields = @ \cup {V4L2_RDS_ECC},
                      !.handle.ecc = grp.data_c_lsb],
                   updated_fields |->
                      IF priv_state.handle.ecc # grp.data_c_lsb
                      THEN {V4L2_RDS_ECC} ELSE {}]
             ELSE [priv_state |-> [priv_state EXCEPT !.new_ecc = grp.data_c_lsb],
                   updated_fields |-> {}]
        ELSE IF variant_code = 3
        THEN IF grp.data_c_lsb = priv_state.new_lc
             THEN [priv_state |-> [priv_state EXCEPT
                      !.handle.valid_fields = @ \cup {V4L2_RDS_LC},
                      !.handle.lc = grp.data_c_lsb],
                   updated_fields |-> {V4L2_RDS_LC}]
             ELSE [priv_state |-> [priv_state EXCEPT !.new_lc = grp.data_c_lsb],
                   updated_fields |-> {}]
        ELSE [priv_state |-> priv_state, updated_fields |-> {}]

\* (int) of a quotient of integers: truncation towards zero
TruncDiv(a, b) == IF a >= 0 THEN a \div b ELSE -((-a) \div b)

\* The broken-down local time handed to mktime (IEC 62106 Annex G), the
\* decimal constants scaled to integers.  tm_isdst is never assigned and keeps
\* whatever the stack held (uninit.tm_isdst).  tm_gmtoff is computed in
\* uint32_t and stored in a long of 64 bits: it is wraps * 2^32 + rest.
rds_decode_mjd(priv_state, uninit) ==
    LET offset == BitAnd(priv_state.utc_offset, 31)
        local_mjd == priv_state.new_mjd
        neg == ToBool(BitAnd(priv_state.utc_offset, 32))
        local_hour == IF neg THEN U8(priv_state.utc_hour - offset * 2)
                      ELSE U8(priv_state.utc_hour + offset * 2)
        local_minute == IF neg THEN U8(priv_state.utc_minute - (offset % 2) * 30)
                        ELSE U8(priv_state.utc_minute + (offset % 2) * 30)
        y0 == TruncDiv(local_mjd * 100 - 1507820, 36525)
        yd == TruncDiv(y0 * 36525, 100)
        m0 == TruncDiv((local_mjd - yd) * 10000 - 149561000, 306001)
        d == local_mjd - 14956 - yd - TruncDiv(m0 * 306001, 10000)
        k == IF m0 = 14 \/ m0 = 15 THEN 1 ELSE 0
    IN  [tm_min |-> local_minute, tm_hour |-> local_hour, tm_mday |-> d,
         tm_mon |-> m0 - 1 - k * 12, tm_year |-> y0 + k,
         tm_gmtoff |-> IF neg /\ offset # 0
                       THEN [wraps |-> 1, rest |-> -2 * offset * 3600]
                       ELSE [wraps |-> 0, rest |-> 2 * offset * 3600],
         tm_isdst |-> uninit.tm_isdst, from_mktime |-> TRUE]

\* group 4: date and time (version A only), accepted when the MJD is received twice
rds_decode_group4(priv_state, uninit) ==
    LET grp == priv_state.rds_group
        mjd == BitOr(BitOr(Shl(BitAnd(grp.data_b_lsb, 3), 15),
                           Shl(grp.data_c_msb, 7)),
                     Shr(grp.data_c_lsb, 1))
    IN  IF grp.group_version # VersionA
        THEN [priv_state |-> priv_state, updated_fields |-> {}]
        ELSE IF priv_state.new_mjd # mjd
        THEN [priv_state |-> [priv_state EXCEPT !.new_mjd = mjd], updated_fields |-> {}]
        ELSE LET p1 == [priv_state EXCEPT
                          !.utc_hour = U8(BitOr(Shl(BitAnd(grp.data_c_lsb, 1), 4),
                                                Shr(grp.data_d_msb, 4))),
                          !.utc_minute = U8(BitOr(Shl(BitAnd(grp.data_d_msb, 15), 2),
                                                  Shr(grp.data_d_lsb, 6))),
                          !.utc_offset = BitAnd(grp.data_d_lsb, 63)]
             IN  [priv_state |-> [p1 EXCEPT
                     !.handle.time = rds_decode_mjd(p1, uninit),
                     !.handle.valid_fields = @ \cup {V4L2_RDS_TIME}],
                  updated_fields |-> {V4L2_RDS_TIME}]

\* group 8A: TMC, accepted when the same group is received twice
rds_decode_group8(priv_state, uninit) ==
    LET grp == priv_state.rds_group
        tuning_variant == BitAnd(grp.data_b_lsb, 15)
    IN  IF grp.group_version # VersionA
        THEN [priv_state |-> priv_state, updated_fields |-> {}]
        ELSE IF ~rds_compare_group(priv_state.prev_tmc_group, priv_state.rds_group)
        THEN [priv_state |-> [priv_state EXCEPT !.prev_tmc_group = priv_state.rds_group],
              updated_fields |-> {}]
        ELSE LET p1 == [priv_state EXCEPT !.prev_tmc_group.group_version = 0]
             IN  IF ToBool(BitAnd(grp.data_b_lsb, V4L2_TMC_SINGLE_GROUP))
                    /\ ~ToBool(BitAnd(grp.data_b_lsb, V4L2_TMC_TUNING_INFO))
                 THEN rds_decode_tmc_single_group(p1, uninit)
                 ELSE IF ~ToBool(BitAnd(grp.data_b_lsb, V4L2_TMC_SINGLE_GROUP))
                         /\ ~ToBool(BitAnd(grp.data_b_lsb, V4L2_TMC_TUNING_INFO))
                 THEN rds_decode_tmc_multi_group(p1)
                 ELSE IF ToBool(BitAnd(grp.data_b_lsb, V4L2_TMC_TUNING_INFO))
                         /\ tuning_variant >= 4 /\ tuning_variant <= 9
                 THEN [priv_state |-> p1, updated_fields |-> {}]
                 ELSE [priv_state |-> p1, updated_fields |-> {}]

\* Faulty variant of set_bit: the bit is set whatever the value.  C23 fails
\* with it.
set_bit_always_setting(input, bitmask, bitvalue) == BitOr(input, bitmask)

\* input with the bits of bitmask set to bitvalue (uint8_t)
set_bit(input, bitmask, bitvalue) ==
    IF bitvalue THEN U8(BitOr(input, bitmask)) ELSE BitAnd(input, 255 - bitmask)

\* Adds or replaces an ODA.  The return false of the loop is not governed by
\* the if above it: the loop ends in its first pass.
rds_add_oda(priv_state, oda) ==
    LET handle == priv_state.handle
    IN  IF 0 < handle.rds_oda.size
        THEN IF handle.rds_oda.oda[1].group_id = oda.group_id
             THEN [priv_state |-> [priv_state EXCEPT
                                     !.handle.rds_oda.oda[1].aid = oda.aid],
                   added |-> FALSE]
             ELSE [priv_state |-> priv_state, added |-> FALSE]
        ELSE IF handle.rds_oda.size >= MAX_ODA_CNT
        THEN [priv_state |-> priv_state, added |-> FALSE]
        ELSE [priv_state |-> [priv_state EXCEPT
                                !.handle.rds_oda.oda = Append(@, oda),
                                !.handle.rds_oda.size = @ + 1],
              added |-> TRUE]

\* Faulty variant of rds_add_af_to_list: the list is not searched for the
\* frequency.  C12, as amended, fails with it.
rds_add_af_to_list_without_search(af_set, af, is_vhf) ==
    LET freq == IF is_vhf THEN 87500000 + af * 100000 ELSE 152000 + af * 9000
    IN  IF af = 0 THEN [af_set |-> af_set, added |-> FALSE]
        ELSE IF af_set.size >= MAX_AF_CNT \/ af_set.size >= af_set.announced_af
        THEN [af_set |-> af_set, added |-> FALSE]
        ELSE [af_set |-> [af_set EXCEPT !.af = Append(@, freq), !.size = @ + 1],
              added |-> TRUE]

\* Faulty variant of rds_add_af_to_list: the announced count does not bound
\* the list.  C13, as amended, fails with it.
rds_add_af_to_list_past_announced(af_set, af, is_vhf) ==
    LET freq == IF is_vhf THEN 87500000 + af * 100000 ELSE 152000 + af * 9000
    IN  IF af = 0 THEN [af_set |-> af_set, added |-> FALSE]
        ELSE IF af_set.size >= MAX_AF_CNT
        THEN [af_set |-> af_set, added |-> FALSE]
        ELSE IF \E i \in 1 .. af_set.size : af_set.af[i] = freq
        THEN [af_set |-> af_set, added |-> FALSE]
        ELSE [af_set |-> [af_set EXCEPT !.af = Append(@, freq), !.size = @ + 1],
              added |-> TRUE]

\* Adds an AF to the list if it is new and there is room.  freq is 0 when the
\* LF/MF test "freq <= 15" reads it.
rds_add_af_to_list(af_set, af, is_vhf) ==
    LET freq0 == 0
        freq == IF is_vhf THEN 87500000 + af * 100000
                ELSE IF freq0 <= 15 THEN 152000 + af * 9000
                ELSE 531000 + af * 9000
    IN  IF af = 0 THEN [af_set |-> af_set, added |-> FALSE]
        ELSE IF af_set.size >= MAX_AF_CNT \/ af_set.size >= af_set.announced_af
        THEN [af_set |-> af_set, added |-> FALSE]
        ELSE IF \E i \in 1 .. af_set.size : af_set.af[i] = freq
        THEN [af_set |-> af_set, added |-> FALSE]
        ELSE [af_set |-> [af_set EXCEPT !.af = Append(@, freq), !.size = @ + 1],
              added |-> TRUE]

\* the AF information of block C of a 0A group
rds_add_af(priv_state) ==
    LET c_msb == priv_state.rds_group.data_c_msb
        c_lsb0 == priv_state.rds_group.data_c_lsb
        s0 == priv_state.handle.rds_af
        \* 250: LF / MF frequency follows
        r1 == IF c_msb = 250 THEN rds_add_af_to_list(s0, c_lsb0, FALSE)
              ELSE [af_set |-> s0, added |-> FALSE]
        c_lsb == IF c_msb = 250 THEN 0 ELSE c_lsb0
        \* 224..249: announcement of the AF count
        s2 == IF c_msb >= 224 /\ c_msb <= 249
              THEN [r1.af_set EXCEPT !.announced_af = c_msb - 224]
              ELSE r1.af_set
        r3 == IF c_msb < 205 THEN rds_add_af_to_list(s2, c_msb, TRUE)
              ELSE [af_set |-> s2, added |-> FALSE]
        r4 == IF c_lsb < 205 THEN rds_add_af_to_list(r3.af_set, c_lsb, TRUE)
              ELSE [af_set |-> r3.af_set, added |-> FALSE]
        af_set == r4.af_set
    IN  [priv_state |-> [priv_state EXCEPT
            !.handle.rds_af = af_set,
            !.handle.valid_fields =
                IF af_set.size >= af_set.announced_af /\ af_set.announced_af # 0
                THEN @ \cup {V4L2_RDS_AF} ELSE @],
         updated_af |-> r1.added \/ r3.added \/ r4.added]

\* Faulty variant of rds_add_ps: a char that differs from the pending one
\* leaves the validity of the other positions alone.  C11, as amended, fails
\* with it.
rds_add_ps_keeping_valid(priv_state, pos, ps_char) ==
    LET p1 == IF ps_char = priv_state.new_ps[pos]
              THEN [priv_state EXCEPT !.new_ps_valid[pos] = 1]
              ELSE [priv_state EXCEPT !.new_ps[pos] = ps_char,
                                      !.new_ps_valid[pos] = 0]
    IN  [priv_state |-> p1,
         all_valid |-> \A i \in 0 .. 7 : p1.new_ps_valid[i] = 1]

\* one char of the PS name; validated when received twice in a row
rds_add_ps(priv_state, pos, ps_char) ==
    LET p1 == IF ps_char = priv_state.new_ps[pos]
              THEN [priv_state EXCEPT !.new_ps_valid[pos] = 1]
              ELSE [priv_state EXCEPT !.new_ps[pos] = ps_char,
                                      !.new_ps_valid = [i \in 0 .. 7 |-> 0]]
    IN  [priv_state |-> p1,
         all_valid |-> \A i \in 0 .. 7 : p1.new_ps_valid[i] = 1]

\* group 0: basic tuning and switching
rds_decode_group0(priv_state) ==
    LET grp == priv_state.rds_group
        ta == ToBool(BitAnd(grp.data_b_lsb, 16))
        ms == ToBool(BitAnd(grp.data_b_lsb, 8))
        upd_ta == IF priv_state.handle.ta # ta THEN {V4L2_RDS_TA} ELSE {}
        upd_ms == IF priv_state.handle.ms # ms THEN {V4L2_RDS_MS} ELSE {}
        p1 == [priv_state EXCEPT
                 !.handle.ta = ta, !.handle.ms = ms,
                 !.handle.valid_fields = @ \cup {V4L2_RDS_TA, V4L2_RDS_MS}]
        segment == BitAnd(grp.data_b_lsb, 3)
        a1 == rds_add_ps(p1, segment * 2, grp.data_d_msb)
        a2 == rds_add_ps(a1.priv_state, segment * 2 + 1, grp.data_d_lsb)
        new_ps == a2.all_valid
        p2 == a2.priv_state
        ps_differs == p2.new_ps # p2.handle.ps
        upd_ps == IF new_ps /\ ps_differs THEN {V4L2_RDS_PS} ELSE {}
        p3 == IF new_ps
              THEN [p2 EXCEPT !.handle.ps = IF ps_differs THEN p2.new_ps ELSE @,
                              !.handle.valid_fields = @ \cup {V4L2_RDS_PS}]
              ELSE p2
        bit2 == ToBool(BitAnd(grp.data_b_lsb, 4))
        di_done == [p3 EXCEPT
                      !.new_di = set_bit(@, V4L2_RDS_FLAG_STATIC_PTY, bit2)]
        upd_di == IF (segment = 0 \/ segment = p3.next_di_segment) /\ segment = 3
                     /\ p3.handle.di # di_done.new_di
                  THEN {V4L2_RDS_DI} ELSE {}
        p4 == IF segment = 0 \/ segment = p3.next_di_segment
              THEN CASE segment = 0 ->
                          [p3 EXCEPT
                             !.new_di = set_bit(@, V4L2_RDS_FLAG_STEREO, bit2),
                             !.next_di_segment = 1]
                     [] segment = 1 ->
                          [p3 EXCEPT
                             !.new_di = set_bit(@, V4L2_RDS_FLAG_ARTIFICIAL_HEAD, bit2),
                             !.next_di_segment = 2]
                     [] segment = 2 ->
                          [p3 EXCEPT
                             !.new_di = set_bit(@, V4L2_RDS_FLAG_COMPRESSED, bit2),
                             !.next_di_segment = 3]
                     [] OTHER ->
                          [di_done EXCEPT
                             !.handle.di = di_done.new_di,
                             !.next_di_segment = 0,
                             !.handle.valid_fields = @ \cup {V4L2_RDS_DI}]
              ELSE [p3 EXCEPT !.next_di_segment = 0, !.new_di = 0]
        af == IF grp.group_version = VersionA THEN rds_add_af(p4)
              ELSE [priv_state |-> p4, updated_af |-> FALSE]
    IN  [priv_state |-> af.priv_state,
         updated_fields |-> upd_ta \cup upd_ms \cup upd_ps \cup upd_di
                            \cup (IF af.updated_af THEN {V4L2_RDS_AF} ELSE {})]

\* memcmp(a, b, n) != 0 on two byte arrays
memcmp(a, b, n) == \E i \in 0 .. n - 1 : a[i] # b[i]

\* Faulty variant of memcpy: nothing is copied.  C15, as amended, fails with
\* it.
memcpy_nothing(dst, src, n) == dst

\* memcpy(dst, src, n)
memcpy(dst, src, n) == [i \in DOMAIN dst |-> IF i < n THEN src[i] ELSE dst[i]]

\* Faulty variant of rt_cr_loop: a carriage return does not end the text.
\* C14, as amended, fails with it.
rt_cr_loop_without_end(r, i) == r

\* the passes i .. 63 of the loop that looks for a carriage return in new_rt;
\* r holds the state and the mask so far
RECURSIVE rt_cr_loop(_, _)
rt_cr_loop(r, i) ==
    IF i >= 64 THEN r
    ELSE IF r.priv_state.new_rt[i] = 13
    THEN LET p1 == [r.priv_state EXCEPT
                      !.new_rt[i] = 0,
                      !.handle.rt_length = i,
                      !.handle.valid_fields = @ \cup {V4L2_RDS_RT}]
             differs == memcmp(p1.handle.rt, p1.new_rt, p1.handle.rt_length)
             p2 == [p1 EXCEPT
                      !.handle.rt = IF differs
                                    THEN memcpy(@, p1.new_rt, p1.handle.rt_length)
                                    ELSE @,
                      !.next_rt_segment = 0]
         IN  rt_cr_loop([priv_state |-> p2,
                         updated_fields |-> r.updated_fields
                            \cup (IF differs THEN {V4L2_RDS_RT} ELSE {})],
                        i + 1)
    ELSE rt_cr_loop(r, i + 1)

\* Faulty variant of rds_decode_group2: every segment is stored, expected or
\* not.  C25 fails with it.
rds_decode_group2_any_segment(priv_state) ==
    LET grp == priv_state.rds_group
        segment == BitAnd(grp.data_b_lsb, 15)
        rt_ab_flag_n == ToBool(BitAnd(grp.data_b_lsb, 16))
        flag_changed == rt_ab_flag_n # priv_state.handle.rt_ab_flag
        upd0 == IF flag_changed THEN {V4L2_RDS_RT} ELSE {}
        p1 == IF flag_changed
              THEN [priv_state EXCEPT
                      !.handle.rt_ab_flag = rt_ab_flag_n,
                      !.handle.rt = [i \in 0 .. 63 |-> 0],
                      !.handle.valid_fields = @ \ {V4L2_RDS_RT},
                      !.next_rt_segment = 0]
              ELSE priv_state
        accepted == TRUE
        r2 ==
            IF grp.group_version = VersionA
            THEN IF accepted
                 THEN LET q1 == [p1 EXCEPT
                                   !.new_rt[segment * 4] = grp.data_c_msb,
                                   !.new_rt[segment * 4 + 1] = grp.data_c_lsb,
                                   !.new_rt[segment * 4 + 2] = grp.data_d_msb,
                                   !.new_rt[segment * 4 + 3] = grp.data_d_lsb,
                                   !.next_rt_segment = segment + 1]
                          differs == memcmp(q1.handle.rt, q1.new_rt, 64)
                      IN  IF segment = 15
                          THEN [priv_state |-> [q1 EXCEPT
                                   !.handle.rt_length = 64,
                                   !.handle.valid_fields = @ \cup {V4L2_RDS_RT},
                                   !.handle.rt = IF differs
                                                 THEN memcpy(@, q1.new_rt, 64) ELSE @,
                                   !.next_rt_segment = 0],
                                updated_fields |->
                                   upd0 \cup (IF differs THEN {V4L2_RDS_RT} ELSE {})]
                          ELSE [priv_state |-> q1, updated_fields |-> upd0]
                 ELSE [priv_state |-> p1, updated_fields |-> upd0]
            ELSE IF accepted
                 THEN LET q1 == [p1 EXCEPT
                                   !.new_rt[segment * 2] = grp.data_d_msb,
                                   !.new_rt[segment * 2 + 1] = grp.data_d_lsb,
                                   !.next_rt_segment = segment + 1]
                          differs == memcmp(q1.handle.rt, q1.new_rt, 32)
                      IN  IF segment = 15
                          THEN [priv_state |-> [q1 EXCEPT
                                   !.handle.rt_length = 32,
                                   !.handle.valid_fields = @ \cup {V4L2_RDS_RT},
                                   !.handle.rt = IF differs
                                                 THEN memcpy(@, q1.new_rt, 32) ELSE @,
                                   !.next_rt_segment = 0],
                                updated_fields |-> upd0 \cup {V4L2_RDS_RT}]
                          ELSE [priv_state |-> q1, updated_fields |-> upd0]
                 ELSE [priv_state |-> p1, updated_fields |-> upd0]
    IN  rt_cr_loop(r2, 0)

\* group 2: radio text
rds_decode_group2(priv_state) ==
    LET grp == priv_state.rds_group
        segment == BitAnd(grp.data_b_lsb, 15)
        rt_ab_flag_n == ToBool(BitAnd(grp.data_b_lsb, 16))
        flag_changed == rt_ab_flag_n # priv_state.handle.rt_ab_flag
        upd0 == IF flag_changed THEN {V4L2_RDS_RT} ELSE {}
        p1 == IF flag_changed
              THEN [priv_state EXCEPT
                      !.handle.rt_ab_flag = rt_ab_flag_n,
                      !.handle.rt = [i \in 0 .. 63 |-> 0],
                      !.handle.valid_fields = @ \ {V4L2_RDS_RT},
                      !.next_rt_segment = 0]
              ELSE priv_state
        accepted == segment = 0 \/ segment = p1.next_rt_segment
        r2 ==
            IF grp.group_version = VersionA
            THEN IF accepted
                 THEN LET q1 == [p1 EXCEPT
                                   !.new_rt[segment * 4] = grp.data_c_msb,
                                   !.new_rt[segment * 4 + 1] = grp.data_c_lsb,
                                   !.new_rt[segment * 4 + 2] = grp.data_d_msb,
                                   !.new_rt[segment * 4 + 3] = grp.data_d_lsb,
                                   !.next_rt_segment = segment + 1]
                          differs == memcmp(q1.handle.rt, q1.new_rt, 64)
                      IN  IF segment = 15
                          THEN [priv_state |-> [q1 EXCEPT
                                   !.handle.rt_length = 64,
                                   !.handle.valid_fields = @ \cup {V4L2_RDS_RT},
                                   !.handle.rt = IF differs
                                                 THEN memcpy(@, q1.new_rt, 64) ELSE @,
                                   !.next_rt_segment = 0],
                                updated_fields |->
                                   upd0 \cup (IF differs THEN {V4L2_RDS_RT} ELSE {})]
                          ELSE [priv_state |-> q1, updated_fields |-> upd0]
                 ELSE [priv_state |-> p1, updated_fields |-> upd0]
            ELSE IF accepted
                 THEN LET q1 == [p1 EXCEPT
                                   !.new_rt[segment * 2] = grp.data_d_msb,
                                   !.new_rt[segment * 2 + 1] = grp.data_d_lsb,
                                   !.next_rt_segment = segment + 1]
                          differs == memcmp(q1.handle.rt, q1.new_rt, 32)
                      IN  IF segment = 15
                          THEN [priv_state |-> [q1 EXCEPT
                                   !.handle.rt_length = 32,
                                   !.handle.valid_fields = @ \cup {V4L2_RDS_RT},
                                   !.handle.rt = IF differs
                                                 THEN memcpy(@, q1.new_rt, 32) ELSE @,
                                   !.next_rt_segment = 0],
                                updated_fields |-> upd0 \cup {V4L2_RDS_RT}]
                          ELSE [priv_state |-> q1, updated_fields |-> upd0]
                 ELSE [priv_state |-> p1, updated_fields |-> upd0]
    IN  rt_cr_loop(r2, 0)

\* group 3: open data announcements (version A only)
rds_decode_group3(priv_state) ==
    LET grp == priv_state.rds_group
        new_oda == [group_version |-> IF ToBool(BitAnd(grp.data_b_lsb, 1))
                                      THEN VersionB ELSE VersionA,
                    group_id |-> Shr(BitAnd(grp.data_b_lsb, 30), 1),
                    aid |-> U16(BitOr(Shl(grp.data_d_msb, 8), grp.data_d_lsb))]
        a == rds_add_oda(priv_state, new_oda)
        p1 == IF a.added
              THEN [a.priv_state EXCEPT !.handle.decode_information = @ \cup {V4L2_RDS_ODA}]
              ELSE a.priv_state
        \* the value rds_decode_tmc_system returns is dropped
        p2 == IF new_oda.aid = 52550 \/ new_oda.aid = 52551
              THEN rds_decode_tmc_system(p1).priv_state
              ELSE p1
    IN  IF grp.group_version # VersionA
        THEN [priv_state |-> priv_state, updated_fields |-> {}]
        ELSE [priv_state |-> p2,
              updated_fields |-> IF a.added THEN {V4L2_RDS_ODA} ELSE {}]

\* group 10: program type name (version A only)
rds_decode_group10(priv_state) ==
    LET grp == priv_state.rds_group
        segment_code == BitAnd(grp.data_b_lsb, 1)
        ptyn_ab_flag_n == ToBool(BitAnd(grp.data_b_lsb, 16))
        flag_changed == ptyn_ab_flag_n # priv_state.handle.ptyn_ab_flag
        p1 == IF flag_changed
              THEN [priv_state EXCEPT
                      !.handle.ptyn_ab_flag = ptyn_ab_flag_n,
                      !.handle.ptyn = [i \in 0 .. 7 |-> 0],
                      !.new_ptyn = [h \in 0 .. 1 |-> [i \in 0 .. 3 |-> 0]],
                      !.new_ptyn_valid = [h \in 0 .. 1 |-> FALSE],
                      !.handle.valid_fields = @ \ {V4L2_RDS_PTYN}]
              ELSE priv_state
        ptyn_tmp == [i \in 0 .. 3 |->
                       CASE i = 0 -> grp.data_c_msb
                         [] i = 1 -> grp.data_c_lsb
                         [] i = 2 -> grp.data_d_msb
                         [] OTHER -> grp.data_d_lsb]
        p2 == IF ~memcmp(ptyn_tmp, p1.new_ptyn[segment_code], 4)
              THEN [p1 EXCEPT !.new_ptyn_valid[segment_code] = TRUE]
              ELSE [p1 EXCEPT !.new_ptyn[segment_code] = ptyn_tmp,
                              !.new_ptyn_valid[segment_code] = FALSE]
        both == p2.new_ptyn_valid[0] /\ p2.new_ptyn_valid[1]
        p3 == IF both
              THEN [p2 EXCEPT
                      !.handle.ptyn = [i \in 0 .. 7 |->
                                         IF i < 4 THEN p2.new_ptyn[0][i]
                                         ELSE p2.new_ptyn[1][i - 4]],
                      !.handle.valid_fields = @ \cup {V4L2_RDS_PTYN}]
              ELSE p2
    IN  IF grp.group_version # VersionA
        THEN [priv_state |-> priv_state, updated_fields |-> {}]
        ELSE [priv_state |-> p3,
              updated_fields |-> (IF flag_changed THEN {V4L2_RDS_PTYN} ELSE {})
                                 \cup (IF both THEN {V4L2_RDS_PTYN} ELSE {})]

---------------------------------------------------------------------------
(* The public operations *)

\* Faulty variant of rds_decode_group: the table has the decoder of group 1
\* at the index 9 too.  C28 fails with it.
rds_decode_group_with_group9(priv_state, uninit) ==
    LET group_id == priv_state.rds_group.group_id
        p1 == [priv_state EXCEPT
                 !.handle.rds_statistics.group_type_cnt[group_id] = @ + 1]
    IN  CASE group_id = 0 -> rds_decode_group0(p1)
          [] group_id = 1 \/ group_id = 9 -> rds_decode_group1(p1)
          [] group_id = 2 -> rds_decode_group2(p1)
          [] group_id = 3 -> rds_decode_group3(p1)
          [] group_id = 4 -> rds_decode_group4(p1, uninit)
          [] group_id = 8 -> rds_decode_group8(p1, uninit)
          [] group_id = 10 -> rds_decode_group10(p1)
          [] OTHER -> [priv_state |-> p1, updated_fields |-> {}]

\* counts the group type and runs the decoder of the group id, if there is one
rds_decode_group(priv_state, uninit) ==
    LET group_id == priv_state.rds_group.group_id
        p1 == [priv_state EXCEPT
                 !.handle.rds_statistics.group_type_cnt[group_id] = @ + 1]
    IN  CASE group_id = 0 -> rds_decode_group0(p1)
          [] group_id = 1 -> rds_decode_group1(p1)
          [] group_id = 2 -> rds_decode_group2(p1)
          [] group_id = 3 -> rds_decode_group3(p1)
          [] group_id = 4 -> rds_decode_group4(p1, uninit)
          [] group_id = 8 -> rds_decode_group8(p1, uninit)
          [] group_id = 10 -> rds_decode_group10(p1)
          [] OTHER -> [priv_state |-> p1, updated_fields |-> {}]

\* Faulty variant of v4l2_rds_reset: the statistics are not put back.  C3
\* fails with it.
v4l2_rds_reset_losing_statistics(priv_state, reset_statistics) ==
    [v4l2_rds_create(FALSE) EXCEPT !.handle.is_rbds = priv_state.handle.is_rbds]

\* Faulty variant of v4l2_rds_reset: the variant flag is not put back.  C4
\* fails with it.
v4l2_rds_reset_losing_variant(priv_state, reset_statistics) ==
    IF ~reset_statistics
    THEN [v4l2_rds_create(FALSE) EXCEPT
            !.handle.rds_statistics = priv_state.handle.rds_statistics]
    ELSE v4l2_rds_create(FALSE)

\* the state v4l2_rds_reset leaves
v4l2_rds_reset(priv_state, reset_statistics) ==
    LET is_rbds == priv_state.handle.is_rbds
        rds_statistics == priv_state.handle.rds_statistics
        zeroed == v4l2_rds_create(FALSE)
        p1 == [zeroed EXCEPT !.handle.is_rbds = is_rbds]
    IN  IF ~reset_statistics
        THEN [p1 EXCEPT !.handle.rds_statistics = rds_statistics]
        ELSE p1

\* Faulty variant of block_id_of: the uncorrectable-error flag is not looked
\* at.  C1 fails with it.
block_id_ignoring_error(rds_data) ==
    BitAnd(rds_data.block, V4L2_RDS_BLOCK_MSK)

\* Faulty variant of block_id_of: only the two low bits of the block id are
\* looked at, so the ids 4..7 pass for 0..3.  C22 fails with it.
block_id_of_two_bits(rds_data) ==
    IF ToBool(BitAnd(rds_data.block, V4L2_RDS_BLOCK_ERROR)) THEN -1
    ELSE BitAnd(rds_data.block, 3)

\* the block id v4l2_rds_add works with: -1 for a block flagged uncorrectable
block_id_of(rds_data) ==
    IF ToBool(BitAnd(rds_data.block, V4L2_RDS_BLOCK_ERROR)) THEN -1
    ELSE BitAnd(rds_data.block, V4L2_RDS_BLOCK_MSK)

\* Faulty variant of count_block: a block flagged uncorrectable is counted
\* as an error only, not as a block.  C2 fails with it.
count_block_skipping_errors(rds_stats, rds_data) ==
    IF ToBool(BitAnd(rds_data.block, V4L2_RDS_BLOCK_ERROR))
    THEN [rds_stats EXCEPT !.block_error_cnt = @ + 1]
    ELSE IF ToBool(BitAnd(rds_data.block, V4L2_RDS_BLOCK_CORRECTED))
    THEN [rds_stats EXCEPT !.block_cnt = @ + 1, !.block_corrected_cnt = @ + 1]
    ELSE [rds_stats EXCEPT !.block_cnt = @ + 1]

\* the statistics after the block was counted
count_block(rds_stats, rds_data) ==
    LET s1 == [rds_stats EXCEPT !.block_cnt = @ + 1]
    IN  IF ToBool(BitAnd(rds_data.block, V4L2_RDS_BLOCK_ERROR))
        THEN [s1 EXCEPT !.block_error_cnt = @ + 1]
        ELSE IF ToBool(BitAnd(rds_data.block, V4L2_RDS_BLOCK_CORRECTED))
        THEN [s1 EXCEPT !.block_corrected_cnt = @ + 1]
        ELSE s1

\* memset(rds_data_raw, 0, sizeof(rds_data_raw)) with rds_data_raw a pointer:
\* the first 8 bytes of the array of 3-byte blocks (lsb, msb, block)
memset_raw(rds_data_raw) ==
    [rds_data_raw EXCEPT ![0] = ZeroData, ![1] = ZeroData,
                         ![2].lsb = 0, ![2].msb = 0]

\* r with the flags of fields added to its mask (updated_fields |= ...)
with_fields(fields, r) ==
    [priv_state |-> r.priv_state, updated_fields |-> fields \cup r.updated_fields]

\* a holds the state and the mask after block A: block B is decoded
decode_block_b(a) ==
    with_fields(a.updated_fields,
                rds_decode_b(a.priv_state, a.priv_state.rds_data_raw[1]))

\* b holds the state and the mask after block B: blocks C and D are stored
\* and the group is decoded by its type
decode_blocks_c_d(b, uninit) ==
    with_fields(b.updated_fields,
                rds_decode_group(
                    rds_decode_d(rds_decode_c(b.priv_state,
                                              b.priv_state.rds_data_raw[2]),
                                 b.priv_state.rds_data_raw[3]),
                    uninit))

\* the decoding of a complete group: the four blocks, then the group type
decode_full_group(priv_state, uninit) ==
    decode_blocks_c_d(
        decode_block_b(rds_decode_a([priv_state EXCEPT !.rds_group = ZeroGroup],
                                    priv_state.rds_data_raw[0])),
        uninit)

\* v4l2_rds_add: the state it leaves and the mask it returns
\* v4l2_rds_add taking a block A in any state as the first block of a group
v4l2_rds_add_restarting(priv_state, rds_data, uninit) ==
    LET block_id == block_id_of(rds_data)
        p1 == [priv_state EXCEPT
                 !.handle.rds_statistics = count_block(@, rds_data)]
        group_error == [p1 EXCEPT !.handle.rds_statistics.group_error_cnt = @ + 1]
        none(p) == [priv_state |-> p, updated_fields |-> {}]
    IN  CASE p1.decode_state = RDS_EMPTY \/ block_id = 0 ->
               IF block_id = 0
               THEN none([p1 EXCEPT
                            !.decode_state = RDS_A_RECEIVED,
                            !.rds_data_raw = [memset_raw(@) EXCEPT ![0] = rds_data]])
               ELSE none(group_error)
          [] p1.decode_state = RDS_A_RECEIVED ->
               IF block_id = 1
               THEN none([p1 EXCEPT !.decode_state = RDS_B_RECEIVED,
                                    !.rds_data_raw[1] = rds_data])
               ELSE none([group_error EXCEPT !.decode_state = RDS_EMPTY])
          [] p1.decode_state = RDS_B_RECEIVED ->
               IF block_id = 2 \/ block_id = 4
               THEN none([p1 EXCEPT !.decode_state = RDS_C_RECEIVED,
                                    !.rds_data_raw[2] = rds_data])
               ELSE none([group_error EXCEPT !.decode_state = RDS_EMPTY])
          [] p1.decode_state = RDS_C_RECEIVED ->
               IF block_id = 3
               THEN decode_full_group(
                      [p1 EXCEPT !.decode_state = RDS_EMPTY,
                                 !.rds_data_raw[3] = rds_data,
                                 !.handle.rds_statistics.group_cnt = @ + 1],
                      uninit)
               ELSE none([group_error EXCEPT !.decode_state = RDS_EMPTY])
          [] OTHER -> none([group_error EXCEPT !.decode_state = RDS_EMPTY])

v4l2_rds_add(priv_state, rds_data, uninit) ==
    LET block_id == block_id_of(rds_data)
        p1 == [priv_state EXCEPT
                 !.handle.rds_statistics = count_block(@, rds_data)]
        group_error == [p1 EXCEPT !.handle.rds_statistics.group_error_cnt = @ + 1]
        none(p) == [priv_state |-> p, updated_fields |-> {}]
    IN  CASE p1.decode_state = RDS_EMPTY ->
               IF block_id = 0
               THEN none([p1 EXCEPT
                            !.decode_state = RDS_A_RECEIVED,
                            !.rds_data_raw = [memset_raw(@) EXCEPT ![0] = rds_data]])
               ELSE none(group_error)
          [] p1.decode_state = RDS_A_RECEIVED ->
               IF block_id = 1
               THEN none([p1 EXCEPT !.decode_state = RDS_B_RECEIVED,
                                    !.rds_data_raw[1] = rds_data])
               ELSE none([group_error EXCEPT !.decode_state = RDS_EMPTY])
          [] p1.decode_state = RDS_B_RECEIVED ->
               IF block_id = 2 \/ block_id = 4
               THEN none([p1 EXCEPT !.decode_state = RDS_C_RECEIVED,
                                    !.rds_data_raw[2] = rds_data])
               ELSE none([group_error EXCEPT !.decode_state = RDS_EMPTY])
          [] p1.decode_state = RDS_C_RECEIVED ->
               IF block_id = 3
               THEN decode_full_group(
                      [p1 EXCEPT !.decode_state = RDS_EMPTY,
                                 !.rds_data_raw[3] = rds_data,
                                 !.handle.rds_statistics.group_cnt = @ + 1],
                      uninit)
               ELSE none([group_error EXCEPT !.decode_state = RDS_EMPTY])
          [] OTHER -> none([group_error EXCEPT !.decode_state = RDS_EMPTY])

---------------------------------------------------------------------------
(* Inputs *)

\* what an uninitialised local may hold: the unassigned members of the TMC
\* message of rds_decode_tmc_single_group and of the struct tm of rds_decode_mjd
Uninit ==
    {[msg |-> ZeroTmcMsg, tm_isdst |-> 0],
     [msg |-> [ZeroTmcMsg EXCEPT !.length = 4, !.sid = 63,
                                 !.additional = <<[label |-> 1, data |-> 1]>>],
      tm_isdst |-> 1]}

\* a raw block
Block(id, flags, msb, lsb) == [lsb |-> lsb, msb |-> msb, block |-> id + flags]

\* the four clean blocks of a group, given as <<A, B, C, D>>, each <<msb, lsb>>
GroupBlocks(g) ==
    <<Block(0, 0, g[1][1], g[1][2]), Block(1, 0, g[2][1], g[2][2]),
      Block(2, 0, g[3][1], g[3][2]), Block(3, 0, g[4][1], g[4][2])>>

\* payload of the blocks of the block-level specification, by block id: the
\* blocks of a 0A group with PI 0x1234, TA and MS set, segment 0, the AF
\* announcement (0xE2, 0x40) and the PS chars 'B', 'B'
Payload(id) ==
    CASE id = 0 -> <<18, 52>>
      [] id = 1 -> <<0, 24>>
      [] id = 2 \/ id = 4 -> <<226, 64>>
      [] id = 3 -> <<66, 66>>
      [] OTHER -> <<0, 0>>

\* the blocks of the block-level specification: clean blocks of every id
\* 0..5, corrected blocks A and D, and blocks A..D flagged uncorrectable
AnyBlocks ==
    {Block(id, 0, Payload(id)[1], Payload(id)[2]) : id \in 0 .. 5}
    \cup {Block(id, V4L2_RDS_BLOCK_CORRECTED, Payload(id)[1], Payload(id)[2]) :
             id \in {0, 3}}
    \cup {Block(id, V4L2_RDS_BLOCK_ERROR, Payload(id)[1], Payload(id)[2]) :
             id \in 0 .. 3}

\* The uninitialised locals a call can read: they belong to decoders of a
\* complete group, which run only on a call made in RDS_C_RECEIVED.
UninitFor(priv_state) ==
    IF priv_state.decode_state = RDS_C_RECEIVED THEN Uninit
    ELSE {[msg |-> ZeroTmcMsg, tm_isdst |-> 0]}

---------------------------------------------------------------------------
(* History *)

\* kind of a block as the assembler is documented to see it
Kind(rds_data) ==
    IF ToBool(BitAnd(rds_data.block, V4L2_RDS_BLOCK_ERROR)) THEN "X"
    ELSE LET id == BitAnd(rds_data.block, V4L2_RDS_BLOCK_MSK)
         IN  CASE id = 0 -> "A"
               [] id = 1 -> "B"
               [] id = 2 \/ id = 4 -> "C"
               [] id = 3 -> "D"
               [] OTHER -> "X"

\* The run after a call with a block of kind k: the length of the longest
\* suffix of the calls that is a prefix of A, B, C, D.
NextRun(r, k) ==
    IF r < 4 /\ k = <<"A", "B", "C", "D">>[r + 1] THEN r + 1
    ELSE IF k = "A" THEN 1
    ELSE 0

\* no run of clean blocks has begun
NoStart == [state |-> RDS_EMPTY, error_cnt |-> 0, group_cnt |-> 0, after |-> "none"]

\* The start of the run after a call with a block of kind k on the decoder p,
\* whose run was r and began at s: an A block begins a run, and what it found
\* is kept: decode_state, the counters of group errors and of groups, and
\* whether the call before it ended a run of four blocks that completed a
\* group ("group"), one that did not ("rejected"), or no run ("none").  A
\* block that continues the run keeps its start; any other block ends it.
NextStart(s, r, k, p) ==
    IF r < 4 /\ r > 0 /\ k = <<"A", "B", "C", "D">>[r + 1] THEN s
    ELSE IF k = "A"
    THEN [state |-> p.decode_state,
          error_cnt |-> p.handle.rds_statistics.group_error_cnt,
          group_cnt |-> p.handle.rds_statistics.group_cnt,
          after |-> IF r # 4 THEN "none"
                    ELSE IF s.state = RDS_EMPTY THEN "group" ELSE "rejected"]
    ELSE NoStart

\* the entry of glog for the group just completed
LogEntry(p, mask) ==
    [a |-> <<p.rds_data_raw[0].msb, p.rds_data_raw[0].lsb>>,
     b |-> <<p.rds_data_raw[1].msb, p.rds_data_raw[1].lsb>>,
     c |-> <<p.rds_data_raw[2].msb, p.rds_data_raw[2].lsb>>,
     d |-> <<p.rds_data_raw[3].msb, p.rds_data_raw[3].lsb>>,
     mask |-> mask]

---------------------------------------------------------------------------
(* Actions *)

Create(is_rbds) ==
    /\ priv = v4l2_rds_create(is_rbds)
    /\ ret = {}
    /\ air = <<>>
    /\ last = [op |-> "create", rds_data |-> ZeroData, reset_statistics |-> FALSE,
               from_state |-> RDS_EMPTY, from_valid |-> {}]
    /\ run = 0
    /\ glog = <<>>
    /\ calls = 0
    /\ was_reset = FALSE
    /\ start = NoStart

Init == \E is_rbds \in BOOLEAN : Create(is_rbds)

\* one call of v4l2_rds_add with the first of blocks; the others stay in the air
Receive(blocks, uninit) ==
    \E r \in {v4l2_rds_add(priv, Head(blocks), uninit)} :
        /\ priv' = r.priv_state
        /\ ret' = r.updated_fields
        /\ air' = Tail(blocks)
        /\ last' = [op |-> "add", rds_data |-> Head(blocks),
                    reset_statistics |-> FALSE,
                    from_state |-> priv.decode_state,
                    from_valid |-> priv.handle.valid_fields]
        /\ run' = NextRun(run, Kind(Head(blocks)))
        /\ glog' = IF r.priv_state.handle.rds_statistics.group_cnt
                        # priv.handle.rds_statistics.group_cnt
                   THEN Append(glog, LogEntry(r.priv_state, r.updated_fields))
                   ELSE glog
        /\ calls' = calls + 1
        /\ start' = NextStart(start, run, Kind(Head(blocks)), priv)
        /\ UNCHANGED was_reset

\* a caller adds one arbitrary block
AddBlock ==
    /\ air = <<>>
    /\ calls < MaxCalls
    /\ \E rds_data \in AnyBlocks, uninit \in UninitFor(priv) :
          Receive(<<rds_data>>, uninit)

\* a group of Groups starts to arrive, at most max groups in all: its block A
\* is added
SendGroup(Groups, max) ==
    /\ air = <<>>
    /\ calls + 4 <= 4 * max
    /\ \E g \in Groups, uninit \in UninitFor(priv) : Receive(GroupBlocks(g), uninit)

\* the next block of the group in the air is added
Deliver ==
    /\ air # <<>>
    /\ \E uninit \in UninitFor(priv) : Receive(air, uninit)

\* a caller resets the decoder
Reset ==
    \E reset_statistics \in BOOLEAN :
        /\ priv' = v4l2_rds_reset(priv, reset_statistics)
        /\ ret' = {}
        /\ last' = [op |-> "reset", rds_data |-> ZeroData,
                    reset_statistics |-> reset_statistics,
                    from_state |-> priv.decode_state,
                    from_valid |-> priv.handle.valid_fields]
        /\ run' = 0
        /\ glog' = <<>>
        /\ was_reset' = TRUE
        /\ start' = NoStart
        /\ UNCHANGED <<air, calls>>

\* block-level specification: any sequence of blocks and resets
Next == AddBlock \/ Reset

Spec == Init /\ [][Next]_vars

\* Group-level specifications: clean groups of a set arrive block by block,
\* with resets at any time.

\* groups 5A (no group decoder) with three PI codes; PTY 0 or 5
PiGroups ==
    {<<a, b, <<0, 0>>, <<0, 0>>>> :
        a \in {<<0, 0>>, <<18, 52>>, <<67, 33>>},
        b \in {<<80, 0>>, <<80, 160>>}}

NextPi == SendGroup(PiGroups, MaxPiGroups) \/ Deliver \/ Reset

SpecPi == Init /\ [][NextPi]_vars

\* groups 5A with PI 0x1234, PTY 0, 5 or 31 and the TP bit clear or set
PtyGroups ==
    {<<<<18, 52>>, b, <<0, 0>>, <<0, 0>>>> :
        b \in {<<80, 0>>, <<84, 0>>, <<80, 160>>, <<84, 160>>,
                <<83, 224>>, <<87, 224>>}}

NextPty == SendGroup(PtyGroups, MaxPtyGroups) \/ Deliver \/ Reset

SpecPty == Init /\ [][NextPty]_vars

\* groups with PI 0x1234: 1A variant 0 with ECC 0 or 0xE0, 1A variant 3 with
\* LC 0 or 9, 4A with MJD 0 or 56000 (two times of day), and 1B
SlowGroups ==
    {<<<<18, 52>>, <<16, 0>>, <<0, 0>>, <<0, 0>>>>,
     <<<<18, 52>>, <<16, 0>>, <<0, 224>>, <<0, 0>>>>,
     <<<<18, 52>>, <<16, 0>>, <<48, 0>>, <<0, 0>>>>,
     <<<<18, 52>>, <<16, 0>>, <<48, 9>>, <<0, 0>>>>,
     <<<<18, 52>>, <<64, 0>>, <<0, 0>>, <<0, 0>>>>,
     <<<<18, 52>>, <<64, 1>>, <<181, 128>>, <<192, 66>>>>,
     <<<<18, 52>>, <<64, 1>>, <<181, 129>>, <<35, 227>>>>,
     <<<<18, 52>>, <<24, 0>>, <<0, 224>>, <<0, 0>>>>}

NextSlow == SendGroup(SlowGroups, MaxSlowGroups) \/ Deliver \/ Reset

SpecSlow == Init /\ [][NextSlow]_vars

\* groups 8: two single-group messages that differ in block D, the first of
\* them with another PI, a first group of a multi-group message, a tuning
\* information group, and an 8B group
TmcGroups ==
    {<<<<18, 52>>, <<128, 8>>, <<192, 5>>, <<18, 52>>>>,
     <<<<18, 52>>, <<128, 8>>, <<192, 5>>, <<18, 53>>>>,
     <<<<67, 33>>, <<128, 8>>, <<192, 5>>, <<18, 52>>>>,
     <<<<18, 52>>, <<128, 1>>, <<128, 5>>, <<18, 52>>>>,
     <<<<18, 52>>, <<128, 20>>, <<0, 0>>, <<0, 0>>>>,
     <<<<18, 52>>, <<136, 8>>, <<192, 5>>, <<18, 52>>>>}

NextTmc == SendGroup(TmcGroups, MaxTmcGroups) \/ Deliver \/ Reset

SpecTmc == Init /\ [][NextTmc]_vars

\* Groups 0A with PI 0x1234 that carry the four segments of a PS name: the
\* segment address s with the chars ('B','B'), ('B','C'), ('-','F'), ('M','1')
\* in block D, and no AF in block C (count 0 and a filler).
PsChars == <<<<66, 66>>, <<66, 67>>, <<45, 70>>, <<77, 49>>>>

PsGroup(s) == <<<<18, 52>>, <<0, s>>, <<224, 205>>, PsChars[s + 1]>>

\* the PS segment address of a logged group 0: bits 0 and 1 of block B
SegmentOf(e) == e.b[2] % 4

\* The broadcaster sends the segments in their order, each any number of
\* times, to a created decoder: the next group repeats the segment of the
\* last one or carries the segment after it.
PsGroupsNow ==
    IF glog = <<>> THEN {PsGroup(s) : s \in 0 .. 3}
    ELSE {PsGroup(s) : s \in {SegmentOf(glog[Len(glog)]),
                              (SegmentOf(glog[Len(glog)]) + 1) % 4}}

NextPs == SendGroup(PsGroupsNow, MaxPsGroups) \/ Deliver

SpecPs == Init /\ [][NextPs]_vars

\* Groups 0 with PI 0x1234 and segment 0 whose block C carries AF codes: the
\* count 2 with the AF 0x40, the AFs 0x50 and 0x51, the count 1 with the AF
\* 0x40, the AF 0x40 twice, an LF/MF frequency, the count 0 with a filler;
\* and a 0B group, whose block C is no AF information
AfGroups ==
    {<<<<18, 52>>, <<0, 0>>, c, <<0, 0>>>> :
        c \in {<<226, 64>>, <<80, 81>>, <<225, 64>>, <<64, 64>>, <<250, 10>>,
               <<224, 205>>}}
    \cup {<<<<18, 52>>, <<8, 0>>, <<80, 81>>, <<0, 0>>>>}

NextAf == SendGroup(AfGroups, MaxAfGroups) \/ Deliver \/ Reset

SpecAf == Init /\ [][NextAf]_vars

\* Groups 2 with PI 0x1234.  With the text flag clear: 2A segment 0 "ABHi",
\* 2A segment 1 "CD\rX", 2B segment 0 "Hi", 2B segment 1 "\rX".  With the text
\* flag set: 2A segment 0 "ABHi", 2A segment 1 "CD\rX", 2A segment 0 "Hi\rX",
\* 2A segment 0 "H\ri\r", 2B segment 0 "\rX".
RtGroups ==
    {<<<<18, 52>>, <<32, 0>>, <<65, 66>>, <<72, 105>>>>,
     <<<<18, 52>>, <<32, 1>>, <<67, 68>>, <<13, 88>>>>,
     <<<<18, 52>>, <<40, 0>>, <<18, 52>>, <<72, 105>>>>,
     <<<<18, 52>>, <<40, 1>>, <<18, 52>>, <<13, 88>>>>,
     <<<<18, 52>>, <<32, 16>>, <<65, 66>>, <<72, 105>>>>,
     <<<<18, 52>>, <<32, 17>>, <<67, 68>>, <<13, 88>>>>,
     <<<<18, 52>>, <<32, 16>>, <<72, 105>>, <<13, 88>>>>,
     <<<<18, 52>>, <<32, 16>>, <<72, 13>>, <<105, 13>>>>,
     <<<<18, 52>>, <<40, 16>>, <<18, 52>>, <<13, 88>>>>}

NextRt == SendGroup(RtGroups, MaxRtGroups) \/ Deliver \/ Reset

SpecRt == Init /\ [][NextRt]_vars

\* Groups 3 with PI 0x1234.  3A groups that announce group 8A with the AID
\* 0xCD46 of TMC and system information of variant 0 (LTN 5, AFI, enhanced
\* mode, MGS 9) and of variant 1 (gap 2, SID 7, timing), group 8A with the
\* AID 0x1234, and group 11A with the AIDs 0x4BD7 and 0x1234; and a 3B group.
OdaGroups ==
    {<<<<18, 52>>, <<48, 16>>, <<1, 121>>, <<205, 70>>>>,
     <<<<18, 52>>, <<48, 16>>, <<97, 219>>, <<205, 70>>>>,
     <<<<18, 52>>, <<48, 16>>, <<0, 0>>, <<18, 52>>>>,
     <<<<18, 52>>, <<48, 22>>, <<0, 0>>, <<75, 215>>>>,
     <<<<18, 52>>, <<48, 22>>, <<0, 0>>, <<18, 52>>>>,
     <<<<18, 52>>, <<56, 22>>, <<0, 0>>, <<75, 215>>>>}

NextOda == SendGroup(OdaGroups, MaxOdaGroups) \/ Deliver \/ Reset

SpecOda == Init /\ [][NextOda]_vars

\* Groups 8A with PI 0x1234: the single-group message with B lsb 0x08,
\* C = (0xC0, 0x05), D = (0x12, 0x34); a single-group message with duration 3,
\* extent 5 and event 0x233; and, with continuity index 1, the first group of
\* a multi-group message and a second group with sequence id 0, which
\* completes the message.  They are sent to a created decoder.
MsgGroups ==
    {<<<<18, 52>>, <<128, 8>>, <<192, 5>>, <<18, 52>>>>,
     <<<<18, 52>>, <<128, 11>>, <<106, 51>>, <<86, 120>>>>,
     <<<<18, 52>>, <<128, 1>>, <<128, 5>>, <<18, 52>>>>,
     <<<<18, 52>>, <<128, 1>>, <<64, 17>>, <<34, 51>>>>}

NextMsg == SendGroup(MsgGroups, MaxMsgGroups) \/ Deliver

SpecMsg == Init /\ [][NextMsg]_vars

\* The blocks of the assembler specification: clean blocks of every id 0..7
\* and blocks A..D flagged uncorrectable.
AsmBlocks ==
    {Block(id, 0, Payload(id)[1], Payload(id)[2]) : id \in 0 .. 7}
    \cup {Block(id, V4L2_RDS_BLOCK_ERROR, Payload(id)[1], Payload(id)[2]) :
             id \in 0 .. 3}

\* a caller adds one block of AsmBlocks
AddAsmBlock ==
    /\ air = <<>>
    /\ calls < MaxAsmCalls
    /\ \E rds_data \in AsmBlocks, uninit \in UninitFor(priv) :
          Receive(<<rds_data>>, uninit)

NextAsm == AddAsmBlock \/ Reset

SpecAsm == Init /\ [][NextAsm]_vars

\* The blocks of the resynchronisation specification: the clean blocks A, B,
\* C, C' and D of Payload and a block A flagged uncorrectable.
SyncBlocks ==
    {Block(id, 0, Payload(id)[1], Payload(id)[2]) : id \in 0 .. 4}
    \cup {Block(0, V4L2_RDS_BLOCK_ERROR, Payload(0)[1], Payload(0)[2])}

\* a caller adds one block of SyncBlocks
AddSyncBlock ==
    /\ air = <<>>
    /\ calls < MaxSyncCalls
    /\ \E rds_data \in SyncBlocks, uninit \in UninitFor(priv) :
          Receive(<<rds_data>>, uninit)

NextSync == AddSyncBlock \/ Reset

SpecSync == Init /\ [][NextSync]_vars

\* Groups 0B with PI 0x1234 and the PS chars (' ', ' '): segments 0 and 3
\* with either value of the DI bit (bit 2 of B lsb), segment 1 with the bit
\* set, segment 2 with the bit clear; and a 15B group.  They are sent to a
\* created decoder.
DiGroups ==
    {<<<<18, 52>>, <<8, b_lsb>>, <<18, 52>>, <<32, 32>>>> :
        b_lsb \in {0, 4, 5, 2, 3, 7}}
    \cup {<<<<18, 52>>, <<248, 0>>, <<18, 52>>, <<0, 0>>>>}

NextDi == SendGroup(DiGroups, MaxDiGroups) \/ Deliver

SpecDi == Init /\ [][NextDi]_vars

\* Groups 0A with PI 0x1234: C = (0xE2, 0x40) announces 2 AFs and gives
\* 93.9 MHz, C = (250, 10) and C = (250, 20) give an LF/MF frequency of code
\* 10 and of code 20.
LfGroups ==
    {<<<<18, 52>>, <<0, 0>>, c, <<0, 0>>>> : c \in {<<226, 64>>, <<250, 10>>, <<250, 20>>}}

NextLf == SendGroup(LfGroups, MaxLfGroups) \/ Deliver \/ Reset

SpecLf == Init /\ [][NextLf]_vars

\* a group 2 with PI 0x1234: version A (v = 0) or B (v = 1), B lsb (segment
\* and A/B flag), C and D
TextGroup(v, b_lsb, c, d) == <<<<18, 52>>, <<32 + 8 * v, b_lsb>>, c, d>>

\* the segments 0 .. 15 of a text of version v, in ascending order
Ascending(v) == [k \in 1 .. 16 |-> TextGroup(v, k - 1, <<65, 66>>, <<67, 68>>)]

\* The texts sent: the 16 segments of a text 2A and of a text 2B in order;
\* a text 2A with segment 5 sent between the segments 1 and 2; a text 2B
\* whose segment 14 is missing; a text 2B whose last segment is of version A;
\* a text 2A whose segment 15 ends with 0x0D; and the segments 0 and 1 of a
\* text 2A followed by segment 2 with the other A/B flag.
TextScripts ==
    {Ascending(0),
     Ascending(1),
     SubSeq(Ascending(0), 1, 2) \o <<TextGroup(0, 5, <<65, 66>>, <<67, 68>>)>>
        \o SubSeq(Ascending(0), 3, 16),
     SubSeq(Ascending(1), 1, 14) \o <<TextGroup(1, 15, <<65, 66>>, <<67, 68>>)>>,
     SubSeq(Ascending(1), 1, 15) \o <<TextGroup(0, 15, <<65, 66>>, <<67, 68>>)>>,
     SubSeq(Ascending(0), 1, 15) \o <<TextGroup(0, 15, <<65, 66>>, <<67, 13>>)>>,
     SubSeq(Ascending(0), 1, 2) \o <<TextGroup(0, 18, <<65, 66>>, <<67, 68>>)>>}

\* the blocks of a logged group
Logged(e) == <<e.a, e.b, e.c, e.d>>

\* the groups that continue a text of TextScripts after the groups received
TextGroupsNow ==
    {s[Len(glog) + 1] :
        s \in {t \in TextScripts :
                  /\ Len(t) > Len(glog)
                  /\ \A i \in 1 .. Len(glog) : Logged(glog[i]) = t[i]}}

NextText == SendGroup(TextGroupsNow, MaxTextGroups) \/ Deliver

SpecText == Init /\ [][NextText]_vars

\* Groups 8A with PI 0x1234 of multi-group messages: with continuity index
\* 1, the first group, a second group with sequence id 1, a second group
\* with sequence id 0, a subsequent group with sequence id 0 and one with
\* sequence id 2; and a subsequent group with sequence id 0 and continuity
\* index 2.
MgGroups ==
    {<<<<18, 52>>, <<128, 1>>, <<128, 5>>, <<18, 52>>>>,
     <<<<18, 52>>, <<128, 1>>, <<80, 17>>, <<34, 51>>>>,
     <<<<18, 52>>, <<128, 1>>, <<64, 17>>, <<34, 51>>>>,
     <<<<18, 52>>, <<128, 1>>, <<0, 33>>, <<68, 85>>>>,
     <<<<18, 52>>, <<128, 1>>, <<32, 33>>, <<68, 85>>>>,
     <<<<18, 52>>, <<128, 2>>, <<0, 33>>, <<68, 85>>>>}

\* The groups sent next to a created decoder: any group of MgGroups after an
\* even number of groups; after an odd number, the last group once more or
\* the first group of the message.
MgGroupsNow ==
    IF Len(glog) % 2 = 0 THEN MgGroups
    ELSE {Logged(glog[Len(glog)]),
          <<<<18, 52>>, <<128, 1>>, <<128, 5>>, <<18, 52>>>>}

NextMg == SendGroup(MgGroupsNow, MaxMgGroups) \/ Deliver

SpecMg == Init /\ [][NextMg]_vars

\* Groups 8A with PI 0x1234 of multi-group messages: the first group and the
\* second group with sequence id 0, each with continuity index 0 and with
\* continuity index 1.
CiGroups ==
    {<<<<18, 52>>, <<128, ci>>, <<128, 5>>, <<18, 52>>>> : ci \in {0, 1}}
    \cup {<<<<18, 52>>, <<128, ci>>, <<64, 17>>, <<34, 51>>>> : ci \in {0, 1}}

NextCi == SendGroup(CiGroups, MaxCiGroups) \/ Deliver \/ Reset

SpecCi == Init /\ [][NextCi]_vars

\* Groups 8A with PI 0x1234 of a multi-group message with continuity index 1
\* that fills the four optional slots: the first group, the second group with
\* sequence id 3 and the subsequent groups with sequence ids 2, 1 and 0.
SlotGroups ==
    {<<<<18, 52>>, <<128, 1>>, <<128, 5>>, <<18, 52>>>>,
     <<<<18, 52>>, <<128, 1>>, <<112, 17>>, <<34, 51>>>>,
     <<<<18, 52>>, <<128, 1>>, <<32, 33>>, <<68, 85>>>>,
     <<<<18, 52>>, <<128, 1>>, <<16, 49>>, <<102, 119>>>>,
     <<<<18, 52>>, <<128, 1>>, <<0, 65>>, <<136, 153>>>>}

\* The groups sent next to a created decoder: any group of SlotGroups after
\* an even number of groups; after an odd number, the last group once more,
\* which validates it.
SlotGroupsNow ==
    IF Len(glog) % 2 = 0 THEN SlotGroups ELSE {Logged(glog[Len(glog)])}

NextSlot == SendGroup(SlotGroupsNow, MaxSlotGroups) \/ Deliver

SpecSlot == Init /\ [][NextSlot]_vars

\* Groups 3A with PI 0x1234 that announce group 8A: with the AID 0xCD46,
\* system information of variant 0 in enhanced mode (C = 0x0179) and in basic
\* mode (C = 0x0169) and of variant 2 (C = 0xA1DB); with the AID 0xCD47,
\* system information of variant 1 (C = 0x61DB); and with the AID 0x1234 the
\* block C of the variant 1.
SysGroups ==
    {<<<<18, 52>>, <<48, 16>>, <<1, 121>>, <<205, 70>>>>,
     <<<<18, 52>>, <<48, 16>>, <<1, 105>>, <<205, 70>>>>,
     <<<<18, 52>>, <<48, 16>>, <<161, 219>>, <<205, 70>>>>,
     <<<<18, 52>>, <<48, 16>>, <<97, 219>>, <<205, 71>>>>,
     <<<<18, 52>>, <<48, 16>>, <<97, 219>>, <<18, 52>>>>}

NextSys == SendGroup(SysGroups, MaxSysGroups) \/ Deliver \/ Reset

SpecSys == Init /\ [][NextSys]_vars

\* the group ids without a decoder
UndecodedIds == {5, 6, 7, 9, 11, 12, 13, 14, 15}

\* Groups with PI 0x1234: a group A of every id without a decoder, with TP
\* clear and PTY 0; a group 15B with PI 0x4321, TP set and PTY 9; the 0A group
\* with TA and MS set, segment 0, the AF announcement (0xE2, 0x40) and the PS
\* chars 'B', 'B'; and a single-group TMC message 8A.
IdleGroups ==
    {<<<<18, 52>>, <<16 * id, 0>>, <<1, 2>>, <<3, 4>>>> : id \in UndecodedIds}
    \cup {<<<<67, 33>>, <<253, 32>>, <<5, 6>>, <<7, 8>>>>,
          <<<<18, 52>>, <<0, 24>>, <<226, 64>>, <<66, 66>>>>,
          <<<<18, 52>>, <<128, 8>>, <<192, 5>>, <<18, 52>>>>}

NextIdle == SendGroup(IdleGroups, MaxIdleGroups) \/ Deliver \/ Reset

SpecIdle == Init /\ [][NextIdle]_vars

\* Groups 10A with PI 0x1234: segment 0 with the chars "NEWS" and with the
\* chars "NEWZ", segment 1 with the chars "TALK", segment 0 and segment 1 with
\* four zero bytes, and segment 0 with the chars "NEWS" and the A/B flag set.
PtynGroups ==
    {<<<<18, 52>>, <<160, 0>>, <<78, 69>>, <<87, 83>>>>,
     <<<<18, 52>>, <<160, 0>>, <<78, 69>>, <<87, 90>>>>,
     <<<<18, 52>>, <<160, 1>>, <<84, 65>>, <<76, 75>>>>,
     <<<<18, 52>>, <<160, 0>>, <<0, 0>>, <<0, 0>>>>,
     <<<<18, 52>>, <<160, 1>>, <<0, 0>>, <<0, 0>>>>,
     <<<<18, 52>>, <<160, 16>>, <<78, 69>>, <<87, 83>>>>}

NextPtyn == SendGroup(PtynGroups, MaxPtynGroups) \/ Deliver \/ Reset

SpecPtyn == Init /\ [][NextPtyn]_vars

---------------------------------------------------------------------------
(* Properties of the block assembler, the statistics and the reset (Spec) *)

\* the step is a call of v4l2_rds_add
IsAdd == calls' = calls + 1

\* the step is a call of v4l2_rds_reset with the given flag
IsReset(reset_statistics) ==
    /\ calls' = calls
    /\ last'.op = "reset"
    /\ last'.reset_statistics = reset_statistics

\* the public handle without its statistics
PublicFields(p) == [p.handle EXCEPT !.rds_statistics = ZeroStatistics]

\* the private state without what every call may change: the assembler
\* state, the raw blocks and the statistics
DecodedState(p) ==
    [p EXCEPT !.decode_state = RDS_EMPTY,
              !.rds_data_raw = [i \in 0 .. 3 |-> ZeroData],
              !.handle.rds_statistics = ZeroStatistics]

\* C1: v4l2_rds_add completes a group (group_cnt or a group type count is
\* incremented, the block and group decoders run, the mask returned is not 0,
\* or a public field other than the statistics changes) only on a call whose
\* block is a D block and whose three preceding calls carried an A, a B and a
\* C or C' block in this order, none of the four flagged uncorrectable.
C1_GroupOnlyAfterCleanRun ==
    [][IsAdd /\ run' # 4 =>
          /\ priv'.handle.rds_statistics.group_cnt
                = priv.handle.rds_statistics.group_cnt
          /\ priv'.handle.rds_statistics.group_type_cnt
                = priv.handle.rds_statistics.group_type_cnt
          /\ ret' = {}
          /\ PublicFields(priv') = PublicFields(priv)
          /\ DecodedState(priv') = DecodedState(priv)]_vars

\* C1, witness: a group was completed by the last call, a D block after a
\* clean run, and its decoding returned a mask and set public fields.
C1_Witness ==
    /\ last.op = "add"
    /\ run = 4
    /\ BitAnd(last.rds_data.block, V4L2_RDS_BLOCK_MSK) = 3
    /\ priv.handle.rds_statistics.group_cnt = 1
    /\ priv.handle.rds_statistics.group_type_cnt[0] = 1
    /\ ret # {}
    /\ priv.handle.valid_fields # {}

\* C2: after n calls of v4l2_rds_add on a created decoder that was not reset,
\* block_cnt is n.
C2_BlockCntIsCalls ==
    ~was_reset => priv.handle.rds_statistics.block_cnt = calls

\* C2, witness: five calls or more without a reset, with a block flagged
\* uncorrectable, a block out of order and a completed group among them.
C2_Witness ==
    /\ ~was_reset
    /\ calls >= 5
    /\ priv.handle.rds_statistics.block_cnt = calls
    /\ priv.handle.rds_statistics.block_error_cnt >= 1
    /\ priv.handle.rds_statistics.group_error_cnt >= 1
    /\ priv.handle.rds_statistics.group_cnt = 1

\* no counter of s is above its value in t
CountersLeq(s, t) ==
    /\ s.block_cnt <= t.block_cnt
    /\ s.block_error_cnt <= t.block_error_cnt
    /\ s.block_corrected_cnt <= t.block_corrected_cnt
    /\ s.group_cnt <= t.group_cnt
    /\ s.group_error_cnt <= t.group_error_cnt
    /\ \A g \in 0 .. 15 : s.group_type_cnt[g] <= t.group_type_cnt[g]

\* C3: over calls of v4l2_rds_add and of v4l2_rds_reset with
\* reset_statistics false, no statistics counter decreases, and such a reset
\* leaves every counter at its value.
C3_CountersNeverDecrease ==
    [][/\ IsAdd \/ IsReset(FALSE) =>
             CountersLeq(priv.handle.rds_statistics, priv'.handle.rds_statistics)
       /\ IsReset(FALSE) =>
             priv'.handle.rds_statistics = priv.handle.rds_statistics]_vars

\* C3, witness: a reset with reset_statistics false, made in the middle of a
\* group, has kept counters that are not zero.
C3_Witness ==
    /\ last.op = "reset"
    /\ ~last.reset_statistics
    /\ last.from_state # RDS_EMPTY
    /\ priv.decode_state = RDS_EMPTY
    /\ priv.handle.rds_statistics.block_cnt >= 5
    /\ priv.handle.rds_statistics.group_cnt = 1
    /\ priv.handle.rds_statistics.group_type_cnt[0] = 1
    /\ priv.handle.rds_statistics.block_error_cnt >= 1

\* C4: v4l2_rds_reset with reset_statistics true leaves, in any state, the
\* state of a decoder just created with the same variant; and no call of
\* v4l2_rds_add or v4l2_rds_reset changes is_rbds.
C4_FullResetIsFresh ==
    [][/\ priv'.handle.is_rbds = priv.handle.is_rbds
       /\ IsReset(TRUE) => priv' = v4l2_rds_create(priv.handle.is_rbds)]_vars

\* C4, witness: a reset with reset_statistics true, made in the middle of a
\* group on an RBDS decoder that had published fields, has left the state of
\* a created RBDS decoder.
C4_Witness ==
    /\ last.op = "reset"
    /\ last.reset_statistics
    /\ last.from_state = RDS_A_RECEIVED
    /\ last.from_valid # {}
    /\ priv.handle.is_rbds
    /\ priv = v4l2_rds_create(TRUE)

---------------------------------------------------------------------------
(* Properties of the PI code (SpecPi) *)

\* the step is a call of v4l2_rds_add that completes a group
Completes == IsAdd /\ Len(glog') = Len(glog) + 1

\* the last group completed, and the one before it
LastGroup(log) == log[Len(log)]
GroupBefore(log) == log[Len(log) - 1]

\* the PI code block A of a logged group carried
PiOf(e) == e.a[1] * 256 + e.a[2]

\* C5: the published pi changes to p, and the PI bit is reported, only on a
\* completed group whose block A carries p when the completed group right
\* before it carried p in block A too.
C5_PiOnlyAfterTwoInARow ==
    [][Completes /\ (priv'.handle.pi # priv.handle.pi \/ V4L2_RDS_PI \in ret') =>
          /\ priv'.handle.pi = PiOf(LastGroup(glog'))
          /\ Len(glog') >= 2
          /\ PiOf(GroupBefore(glog')) = PiOf(LastGroup(glog'))]_vars

\* C6: on a created decoder, after one group whose block A carries a PI p
\* other than 0, the PI bit of valid_fields is clear and pi is unchanged;
\* after a second group with the same block A, pi is p, the PI bit of
\* valid_fields is set and the mask of the call that completed the second
\* group holds the PI bit.
C6_PiAfterSecondGroup ==
    ~was_reset /\ air = <<>> /\ glog # <<>> /\ PiOf(glog[1]) # 0 =>
        /\ Len(glog) = 1 =>
              /\ V4L2_RDS_PI \notin priv.handle.valid_fields
              /\ priv.handle.pi = 0
              /\ V4L2_RDS_PI \notin ret
        /\ Len(glog) = 2 /\ PiOf(glog[2]) = PiOf(glog[1]) =>
              /\ priv.handle.pi = PiOf(glog[1])
              /\ V4L2_RDS_PI \in priv.handle.valid_fields
              /\ V4L2_RDS_PI \in ret
              /\ V4L2_RDS_PI \in glog[2].mask

\* C6, witness: a created decoder has received two groups with PI 0x1234.
C6_Witness ==
    /\ ~was_reset
    /\ air = <<>>
    /\ Len(glog) = 2
    /\ PiOf(glog[1]) = 4660
    /\ PiOf(glog[2]) = 4660
    /\ priv.handle.pi = 4660
    /\ ret = {V4L2_RDS_PI}

---------------------------------------------------------------------------
(* Properties of PTY and TP (SpecPty) *)

\* the PTY code block B of a logged group carried: bits 5 to 9 of the block
PtyOf(e) == (e.b[1] % 4) * 8 + (e.b[2] \div 32)

\* bit 10 of block B of a logged group: bit 2 of its msb
TpOf(e) == (e.b[1] \div 4) % 2 = 1

\* C7: for every 5-bit value v, once two groups in a row carry the PTY v in
\* block B, pty is v and the PTY bit of valid_fields is set, on a created
\* decoder as well as after another PTY was published.
C7_PtyAfterTwoInARow ==
    air = <<>> /\ Len(glog) >= 2
      /\ PtyOf(GroupBefore(glog)) = PtyOf(LastGroup(glog)) =>
        /\ priv.handle.pty = PtyOf(LastGroup(glog))
        /\ V4L2_RDS_PTY \in priv.handle.valid_fields

\* C7, amended: once two groups in a row carry the PTY v in block B, pty is
\* v; the PTY bit of valid_fields is set exactly when, since creation or the
\* last reset, two groups in a row carried the same PTY other than 0.  Two
\* groups with PTY 0 on a created or reset decoder leave the bit clear.
C7_PtyValidOnceStored ==
    /\ air = <<>> /\ Len(glog) >= 2
          /\ PtyOf(GroupBefore(glog)) = PtyOf(LastGroup(glog)) =>
            priv.handle.pty = PtyOf(LastGroup(glog))
    /\ V4L2_RDS_PTY \in priv.handle.valid_fields <=>
          \E i \in 1 .. Len(glog) - 1 :
              PtyOf(glog[i]) = PtyOf(glog[i + 1]) /\ PtyOf(glog[i]) # 0

\* C7, witness: a decoder has received PTY 5 twice in a row and published it.
C7_Witness ==
    /\ air = <<>>
    /\ Len(glog) = 2
    /\ PtyOf(glog[1]) = 5
    /\ PtyOf(glog[2]) = 5
    /\ priv.handle.pty = 5
    /\ V4L2_RDS_PTY \in priv.handle.valid_fields
    /\ V4L2_RDS_PTY \in ret

\* C10: after every completed group, tp is bit 10 of the group's block B, and
\* the TP bit is in the mask returned exactly when tp changed.
C10_TpFollowsBlockB ==
    [][Completes =>
          /\ priv'.handle.tp = TpOf(LastGroup(glog'))
          /\ V4L2_RDS_TP \in ret' <=> priv'.handle.tp # priv.handle.tp]_vars

---------------------------------------------------------------------------
(* Properties of ECC, LC and the time (SpecSlow) *)

\* what a logged group carries: "ECC" for a 1A group of variant 0, "LC" for a
\* 1A group of variant 3, "MJD" for a 4A group, "none" for any other group
SlowKind(e) ==
    IF e.b[1] \div 8 = 2 /\ (e.c[1] \div 16) % 8 = 0 THEN "ECC"
    ELSE IF e.b[1] \div 8 = 2 /\ (e.c[1] \div 16) % 8 = 3 THEN "LC"
    ELSE IF e.b[1] \div 8 = 8 THEN "MJD"
    ELSE "none"

\* the ECC, the LC or the MJD a logged group carries
SlowValue(e) ==
    IF SlowKind(e) = "MJD"
    THEN (e.b[2] % 4) * 32768 + e.c[1] * 128 + (e.c[2] \div 2)
    ELSE e.c[2]

\* the places of the log before its last where a group of the kind of the
\* last group is
EarlierOfKind(log) ==
    {i \in 1 .. Len(log) - 1 : SlowKind(log[i]) = SlowKind(LastGroup(log))}

\* the last group of the log follows a group of its kind with the same value
SameAsPrevious(log) ==
    /\ EarlierOfKind(log) # {}
    /\ \E i \in EarlierOfKind(log) :
          /\ \A j \in EarlierOfKind(log) : j <= i
          /\ SlowValue(log[i]) = SlowValue(LastGroup(log))

\* the step sets field f of the handle (named by its flag): it changes the
\* field, sets its bit of valid_fields or reports it
Publishes(f, old, new) ==
    \/ old # new
    \/ f \in priv'.handle.valid_fields \ priv.handle.valid_fields
    \/ f \in ret'

\* C8: a 1A group of variant 0 sets ecc or its bit of valid_fields, a 1A group
\* of variant 3 sets lc or its bit, and a 4A group sets time or its bit, only
\* if the group of the same kind before it carried the same ECC, LC or MJD;
\* the first such group after creation or reset sets nothing.
C8_NothingOnFirstReception ==
    [][Completes
         /\ \/ Publishes(V4L2_RDS_ECC, priv.handle.ecc, priv'.handle.ecc)
            \/ Publishes(V4L2_RDS_LC, priv.handle.lc, priv'.handle.lc)
            \/ Publishes(V4L2_RDS_TIME, priv.handle.time, priv'.handle.time)
       => SameAsPrevious(glog')]_vars

---------------------------------------------------------------------------
(* Properties of the TMC groups (SpecTmc) *)

\* a logged group is a group 8 of version A
Is8A(e) == e.b[1] \div 8 = 16

\* a logged 8A group carries a message (not tuning information)
IsTmcMessage(e) == Is8A(e) /\ (e.b[2] \div 16) % 2 = 0

\* two logged groups agree in PI, version, group id, the five low bits of
\* block B and blocks C and D
SameGroup(e, f) ==
    /\ e.a = f.a
    /\ e.b[1] \div 8 = f.b[1] \div 8
    /\ e.b[2] % 32 = f.b[2] % 32
    /\ e.c = f.c
    /\ e.d = f.d

\* the call that completed the logged group reported a TMC message
Decoded(e) == e.mask \cap {V4L2_RDS_TMC_SG, V4L2_RDS_TMC_MG} # {}

\* the 8A group right before place n of the log is the same group as the one
\* at n
Follows8ATwin(log, n) ==
    \E i \in 1 .. n - 1 :
        /\ Is8A(log[i])
        /\ \A j \in i + 1 .. n - 1 : ~Is8A(log[j])
        /\ SameGroup(log[i], log[n])

\* C9: an 8A group is decoded as a TMC message only when the 8A group right
\* before it was the same group; of three same 8A groups in a row (the first
\* not itself following its twin) only the second is decoded.
C9_TmcDecodedOnSecondOnly ==
    /\ \A n \in 1 .. Len(glog) :
          Decoded(glog[n]) => Is8A(glog[n]) /\ Follows8ATwin(glog, n)
    /\ \A n \in 3 .. Len(glog) :
          /\ IsTmcMessage(glog[n])
          /\ SameGroup(glog[n - 2], glog[n - 1])
          /\ SameGroup(glog[n - 1], glog[n])
          /\ ~Follows8ATwin(glog, n - 2)
          => /\ ~Decoded(glog[n - 2])
             /\ Decoded(glog[n - 1])
             /\ ~Decoded(glog[n])

\* C9, witness: the same single-group message was received three times in a
\* row and decoded on its second reception only.
C9_Witness ==
    /\ Len(glog) = 3
    /\ IsTmcMessage(glog[3])
    /\ SameGroup(glog[1], glog[2])
    /\ SameGroup(glog[2], glog[3])
    /\ ~Decoded(glog[1])
    /\ V4L2_RDS_TMC_SG \in glog[2].mask
    /\ ~Decoded(glog[3])
    /\ V4L2_RDS_TMC_SG \in priv.handle.valid_fields

---------------------------------------------------------------------------
(* Properties of the PS name (SpecPs) *)

\* the segment addresses of the logged groups
Segs(log) == [i \in 1 .. Len(log) |-> SegmentOf(log[i])]

\* s is a prefix of t
IsPrefix(s, t) == Len(s) <= Len(t) /\ \A i \in 1 .. Len(s) : s[i] = t[i]

\* the two orders of reception: each segment twice back to back, and the four
\* segments cycled twice
BackToBack == <<0, 0, 1, 1, 2, 2, 3, 3>>
Cycled == <<0, 1, 2, 3, 0, 1, 2, 3>>

\* the positions of the pending PS name that are marked valid
ValidPositions(p) == {i \in 0 .. 7 : p.new_ps_valid[i] = 1}

\* the two positions of the PS name a segment fills
PositionsOf(s) == {2 * s, 2 * s + 1}

\* an 8-char name as the array of its chars
PsName(chars) == [i \in 0 .. 7 |-> chars[i + 1]]

\* C11: on a created decoder, in either order of reception, the positions of
\* a segment are valid once the segment has arrived twice, and after the eight
\* groups all eight positions are valid, ps is "BBC-FM 1" and the PS bit of
\* valid_fields is set.
C11_PsAfterEachSegmentTwice ==
    air = <<>> /\ (IsPrefix(Segs(glog), BackToBack) \/ IsPrefix(Segs(glog), Cycled)) =>
        /\ \A s \in 0 .. 3 :
              Cardinality({i \in 1 .. Len(glog) : SegmentOf(glog[i]) = s}) = 2 =>
                  PositionsOf(s) \subseteq ValidPositions(priv)
        /\ Len(glog) = 8 =>
              /\ ValidPositions(priv) = 0 .. 7
              /\ priv.handle.ps = PsName(<<66, 66, 67, 45, 70, 77, 32, 49>>)
              /\ V4L2_RDS_PS \in priv.handle.valid_fields

\* C11, amended: when the four segments are cycled twice, the positions of a
\* segment become valid on its second arrival, and after the eight groups all
\* eight positions are valid, ps is "BBBC-FM1" (the chars as sent), the PS bit
\* of valid_fields is set and the last call reports PS.  When each segment
\* arrives twice back to back, the first arrival of the next segment clears
\* the validity of every position: after the eight groups only positions 6
\* and 7 are valid, ps is still zero and the PS bit is clear.
C11_PsValidWhenCycled ==
    air = <<>> /\ glog # <<>> =>
        /\ IsPrefix(Segs(glog), Cycled) =>
              /\ ValidPositions(priv) = {i \in 0 .. 7 : i \div 2 < Len(glog) - 4}
              /\ Len(glog) = 8 =>
                    /\ priv.handle.ps = PsName(<<66, 66, 66, 67, 45, 70, 77, 49>>)
                    /\ V4L2_RDS_PS \in priv.handle.valid_fields
                    /\ V4L2_RDS_PS \in ret
              /\ Len(glog) < 8 =>
                    /\ priv.handle.ps = PsName(<<0, 0, 0, 0, 0, 0, 0, 0>>)
                    /\ V4L2_RDS_PS \notin priv.handle.valid_fields
        /\ IsPrefix(Segs(glog), BackToBack) =>
              /\ ValidPositions(priv) =
                    IF Len(glog) % 2 = 0 THEN PositionsOf(Len(glog) \div 2 - 1) ELSE {}
              /\ priv.handle.ps = PsName(<<0, 0, 0, 0, 0, 0, 0, 0>>)
              /\ V4L2_RDS_PS \notin priv.handle.valid_fields

\* C11, witness: the four segments were cycled twice and the name published.
C11_Witness ==
    /\ air = <<>>
    /\ Len(glog) = 8
    /\ Segs(glog) = Cycled
    /\ ValidPositions(priv) = 0 .. 7
    /\ priv.handle.ps = PsName(<<66, 66, 66, 67, 45, 70, 77, 49>>)
    /\ V4L2_RDS_PS \in ret

---------------------------------------------------------------------------
(* Properties of the alternative frequencies (SpecAf) *)

\* a logged group is a group 0 of version A
Is0A(e) == e.b[1] \div 8 = 0

\* the AF counts the logged groups announced, and 0
Announced(log) ==
    {0} \cup {log[i].c[1] - 224 : i \in {j \in 1 .. Len(log) :
                 Is0A(log[j]) /\ log[j].c[1] >= 224 /\ log[j].c[1] <= 249}}

\* the largest count announced
MaxAnnounced(log) == CHOOSE m \in Announced(log) : \A x \in Announced(log) : x <= m

\* no frequency is twice in the AF set, whose size is the number of its entries
NoDuplicateAf(af_set) ==
    /\ af_set.size = Len(af_set.af)
    /\ \A i, j \in 1 .. Len(af_set.af) : i # j => af_set.af[i] # af_set.af[j]

\* C12: in every state the AF set holds no frequency twice, its size is at
\* most MAX_AF_CNT and, when the announced count is not 0, at most the count
\* announced last.
C12_AfSetWithinAnnounced ==
    /\ NoDuplicateAf(priv.handle.rds_af)
    /\ priv.handle.rds_af.size <= MAX_AF_CNT
    /\ priv.handle.rds_af.announced_af # 0 =>
          priv.handle.rds_af.size <= priv.handle.rds_af.announced_af

\* C12, amended: in every state the AF set holds no frequency twice, its size
\* is at most MAX_AF_CNT and at most the largest count announced since
\* creation or the last reset.  A frequency is added only while the size is
\* below the count announced last, and no entry is ever removed: after a
\* smaller count is announced the size can exceed it.
C12_AfSetWithinLargestAnnounced ==
    /\ NoDuplicateAf(priv.handle.rds_af)
    /\ priv.handle.rds_af.size <= MAX_AF_CNT
    /\ priv.handle.rds_af.size <= MaxAnnounced(glog)

\* C12, witness: the count 2 was announced and two frequencies stored, then
\* the count 1 was announced: the set still holds the two frequencies.
C12_Witness ==
    /\ air = <<>>
    /\ Len(glog) = 3
    /\ glog[3].c = <<225, 64>>
    /\ priv.handle.rds_af.announced_af = 1
    /\ priv.handle.rds_af.af = <<93900000, 95500000>>
    /\ priv.handle.rds_af.size = 2

\* the decoder has received, since creation or the last reset, the 0A group
\* with C = (0xE2, 0x40) and then n - 1 groups, the second of them the 0A
\* group with C = (0x50, 0x51)
AfExample(n) ==
    /\ air = <<>>
    /\ Len(glog) = n
    /\ Is0A(glog[1]) /\ glog[1].c = <<226, 64>>
    /\ n >= 2 => Is0A(glog[2]) /\ glog[2].c = <<80, 81>>

\* f is in the AF set
InAfSet(f) == \E i \in 1 .. Len(priv.handle.rds_af.af) : priv.handle.rds_af.af[i] = f

\* C13: the 0A group with C = (0xE2, 0x40) sets the announced count to 2 and
\* stores 93900000 as the first AF; the 0A group with C = (0x50, 0x51) after
\* it adds 95500000 and 95600000; the AF bit of valid_fields is set once the
\* second announced AF was received.
C13_AfExampleAddsBoth ==
    /\ AfExample(1) =>
          /\ priv.handle.rds_af.announced_af = 2
          /\ priv.handle.rds_af.af[1] = 93900000
          /\ V4L2_RDS_AF \notin priv.handle.valid_fields
    /\ AfExample(2) =>
          /\ InAfSet(95500000)
          /\ InAfSet(95600000)
          /\ V4L2_RDS_AF \in priv.handle.valid_fields

\* C13, amended: the 0A group with C = (0xE2, 0x40) sets the announced count
\* to 2 and stores 93900000 as the first AF, the AF bit still clear; the 0A
\* group with C = (0x50, 0x51) after it adds 95500000, which fills the set to
\* the announced count and sets the AF bit, and 95600000 is dropped: the set
\* is 93900000, 95500000.  Both calls report AF.
C13_AfExampleFillsToCount ==
    /\ AfExample(1) =>
          /\ priv.handle.rds_af.announced_af = 2
          /\ priv.handle.rds_af.af = <<93900000>>
          /\ priv.handle.rds_af.size = 1
          /\ V4L2_RDS_AF \notin priv.handle.valid_fields
          /\ V4L2_RDS_AF \in ret
    /\ AfExample(2) =>
          /\ priv.handle.rds_af.announced_af = 2
          /\ priv.handle.rds_af.af = <<93900000, 95500000>>
          /\ priv.handle.rds_af.size = 2
          /\ ~InAfSet(95600000)
          /\ V4L2_RDS_AF \in priv.handle.valid_fields
          /\ V4L2_RDS_AF \in ret

\* C13, witness: the two groups of the example were received by a created
\* decoder, and the second filled the set.
C13_Witness ==
    /\ ~was_reset
    /\ AfExample(2)
    /\ InAfSet(93900000)
    /\ InAfSet(95500000)
    /\ V4L2_RDS_AF \in priv.handle.valid_fields

---------------------------------------------------------------------------
(* Properties of the radio text (SpecRt) *)

\* a logged group is a group 2, of version A
Is2(e) == e.b[1] \div 16 = 2
Is2A(e) == e.b[1] \div 8 = 4

\* the segment address and the A/B text flag of a logged group 2
RtSegment(e) == e.b[2] % 16
RtFlag(e) == (e.b[2] \div 16) % 2 = 1

\* the chars a logged group 2 carries: four in version A, two in version B
RtChars(e) == IF Is2A(e) THEN <<e.c[1], e.c[2], e.d[1], e.d[2]>> ELSE <<e.d[1], e.d[2]>>

\* the offsets of the carriage returns among chars
CrOffsets(chars) == {i \in 0 .. Len(chars) - 1 : chars[i + 1] = 13}

\* the largest of a set of offsets that is not empty
LastOffset(S) == CHOOSE m \in S : \A x \in S : x <= m

\* the 64 bytes of a text buffer that holds chars and zeros after them
RtText(chars) == [i \in 0 .. 63 |-> IF i < Len(chars) THEN chars[i + 1] ELSE 0]

\* the chars before offset n, each carriage return replaced by 0
Terminated(chars, n) == [i \in 1 .. n |-> IF chars[i] = 13 THEN 0 ELSE chars[i]]

\* the step completes a group 2 whose text flag differs from the stored one
FlagTransition ==
    /\ Completes
    /\ Is2(LastGroup(glog'))
    /\ RtFlag(LastGroup(glog')) # priv.handle.rt_ab_flag

\* C14: a call that completes a group 2 whose text flag differs from the
\* stored one leaves rt all zeros and the RT bit of valid_fields clear,
\* whatever segment and chars the group carries.
C14_TextClearedOnTransition ==
    [][FlagTransition =>
          /\ priv'.handle.rt = RtText(<<>>)
          /\ V4L2_RDS_RT \notin priv'.handle.valid_fields]_vars

\* C14, amended: a call that completes a group 2 whose text flag differs from
\* the stored one reports RT and stores the flag.  It leaves rt all zeros and
\* the RT bit clear unless the group has segment 0 and carries a carriage
\* return: the text of such a group ends in the group itself, so the call
\* sets the RT bit, rt_length to the offset of the last carriage return, and
\* rt to the chars before it.
C14_TextClearedUnlessEnded ==
    [][FlagTransition =>
          /\ V4L2_RDS_RT \in ret'
          /\ priv'.handle.rt_ab_flag = RtFlag(LastGroup(glog'))
          /\ IF RtSegment(LastGroup(glog')) = 0
                /\ CrOffsets(RtChars(LastGroup(glog'))) # {}
             THEN /\ V4L2_RDS_RT \in priv'.handle.valid_fields
                  /\ priv'.handle.rt_length
                        = LastOffset(CrOffsets(RtChars(LastGroup(glog'))))
                  /\ priv'.handle.rt
                        = RtText(Terminated(RtChars(LastGroup(glog')),
                                            priv'.handle.rt_length))
             ELSE /\ priv'.handle.rt = RtText(<<>>)
                  /\ V4L2_RDS_RT \notin priv'.handle.valid_fields]_vars

\* C14, witness: a text was published, and then a group with the other flag,
\* segment 0 and no carriage return has cleared it.
C14_Witness ==
    /\ air = <<>>
    /\ Len(glog) = 3
    /\ ~RtFlag(glog[1]) /\ ~RtFlag(glog[2]) /\ RtFlag(glog[3])
    /\ V4L2_RDS_RT \in glog[2].mask
    /\ RtSegment(glog[3]) = 0
    /\ CrOffsets(RtChars(glog[3])) = {}
    /\ priv.handle.rt = RtText(<<>>)
    /\ priv.handle.rt_ab_flag
    /\ V4L2_RDS_RT \notin priv.handle.valid_fields
    /\ V4L2_RDS_RT \in ret

\* the decoder has received, since creation or the last reset, two groups 2
\* of the same version and text flag: segment 0 with the D bytes ('H','i'),
\* then segment 1 with the D bytes (0x0D,'X')
RtExample ==
    /\ air = <<>>
    /\ Len(glog) = 2
    /\ Is2(glog[1]) /\ Is2(glog[2])
    /\ Is2A(glog[1]) = Is2A(glog[2])
    /\ RtFlag(glog[1]) = RtFlag(glog[2])
    /\ RtSegment(glog[1]) = 0 /\ glog[1].d = <<72, 105>>
    /\ RtSegment(glog[2]) = 1 /\ glog[2].d = <<13, 88>>

\* C15: after a 2A group with segment 0 and D bytes ('H','i') and a 2A group
\* with segment 1 and D bytes (0x0D,'X'), whatever their C bytes, rt is "Hi",
\* rt_length is 2 and the RT bit of valid_fields is set.
C15_TextEndsAfterHi ==
    RtExample /\ Is2A(glog[1]) =>
        /\ priv.handle.rt = RtText(<<72, 105>>)
        /\ priv.handle.rt_length = 2
        /\ V4L2_RDS_RT \in priv.handle.valid_fields

\* C15, amended: after two such groups of version B, rt is "Hi", rt_length is
\* 2 and the RT bit is set.  A group of version A carries four chars, the C
\* bytes before the D bytes: after two such 2A groups with the C bytes
\* (c1, c2) and (c3, c4), none 0x0D, rt is c1 c2 'H' 'i' c3 c4, rt_length is
\* 6 and the RT bit is set.  The call that completes the second group
\* reports RT.
C15_TextEndsAtCarriageReturn ==
    RtExample /\ CrOffsets(<<glog[1].c[1], glog[1].c[2], glog[2].c[1], glog[2].c[2]>>) = {} =>
        /\ V4L2_RDS_RT \in priv.handle.valid_fields
        /\ V4L2_RDS_RT \in ret
        /\ IF Is2A(glog[1])
           THEN /\ priv.handle.rt = RtText(<<glog[1].c[1], glog[1].c[2], 72, 105,
                                             glog[2].c[1], glog[2].c[2]>>)
                /\ priv.handle.rt_length = 6
           ELSE /\ priv.handle.rt = RtText(<<72, 105>>)
                /\ priv.handle.rt_length = 2

\* C15, witness: a created decoder has received the two groups in version A
\* and published the six chars.
C15_Witness ==
    /\ ~was_reset
    /\ RtExample
    /\ Is2A(glog[1])
    /\ priv.handle.rt_length = 6
    /\ priv.handle.rt = RtText(<<65, 66, 72, 105, 67, 68>>)
    /\ V4L2_RDS_RT \in priv.handle.valid_fields

---------------------------------------------------------------------------
(* Properties of the open data announcements (SpecOda) *)

\* a logged group is a group 3 of version A
Is3A(e) == e.b[1] \div 8 = 6

\* the group id and the AID a logged 3A group announces
OdaGroupId(e) == (e.b[2] % 32) \div 2
OdaAid(e) == e.d[1] * 256 + e.d[2]

\* the group ids the 3A groups of the log announced
AnnouncedIds(log) == {OdaGroupId(log[i]) : i \in {j \in 1 .. Len(log) : Is3A(log[j])}}

\* the places of the ODA set that hold an entry for group id g
OdaEntries(oda_set, g) == {i \in 1 .. oda_set.size : oda_set.oda[i].group_id = g}

\* C16: after a 3A group that announces the group id g with the AID a, the
\* ODA set holds exactly one entry for g, with the AID a; after 3A groups
\* that announced k group ids, k at most MAX_ODA_CNT, the set holds k entries.
C16_OdaAddedOrReplaced ==
    /\ air = <<>> /\ glog # <<>> /\ Is3A(LastGroup(glog))
          /\ Cardinality(AnnouncedIds(glog)) <= MAX_ODA_CNT =>
            /\ Cardinality(OdaEntries(priv.handle.rds_oda,
                                      OdaGroupId(LastGroup(glog)))) = 1
            /\ \A i \in OdaEntries(priv.handle.rds_oda, OdaGroupId(LastGroup(glog))) :
                  priv.handle.rds_oda.oda[i].aid = OdaAid(LastGroup(glog))
    /\ Cardinality(AnnouncedIds(glog)) <= MAX_ODA_CNT =>
          priv.handle.rds_oda.size = Cardinality(AnnouncedIds(glog))

\* the fields of the public snapshot, named by their flags
Fields ==
    {V4L2_RDS_PI, V4L2_RDS_PTY, V4L2_RDS_TP, V4L2_RDS_TA, V4L2_RDS_MS,
     V4L2_RDS_PS, V4L2_RDS_RT, V4L2_RDS_DI, V4L2_RDS_AF, V4L2_RDS_ECC,
     V4L2_RDS_LC, V4L2_RDS_PTYN, V4L2_RDS_TIME, V4L2_RDS_ODA, V4L2_RDS_TMC_SG,
     V4L2_RDS_TMC_MG, V4L2_RDS_TMC_SYS}

\* what the handle of p holds for field f
FieldValue(f, p) ==
    CASE f = V4L2_RDS_PI -> <<p.handle.pi>>
      [] f = V4L2_RDS_PTY -> <<p.handle.pty>>
      [] f = V4L2_RDS_TP -> <<p.handle.tp>>
      [] f = V4L2_RDS_TA -> <<p.handle.ta>>
      [] f = V4L2_RDS_MS -> <<p.handle.ms>>
      [] f = V4L2_RDS_PS -> <<p.handle.ps>>
      [] f = V4L2_RDS_RT -> <<p.handle.rt, p.handle.rt_length, p.handle.rt_ab_flag>>
      [] f = V4L2_RDS_DI -> <<p.handle.di>>
      [] f = V4L2_RDS_AF -> <<p.handle.rds_af>>
      [] f = V4L2_RDS_ECC -> <<p.handle.ecc>>
      [] f = V4L2_RDS_LC -> <<p.handle.lc>>
      [] f = V4L2_RDS_PTYN -> <<p.handle.ptyn, p.handle.ptyn_ab_flag>>
      [] f = V4L2_RDS_TIME -> <<p.handle.time>>
      [] f = V4L2_RDS_ODA -> <<p.handle.rds_oda>>
      [] f = V4L2_RDS_TMC_SG -> <<p.handle.tmc.tmc_msg>>
      [] f = V4L2_RDS_TMC_MG -> <<p.handle.tmc.tmc_msg>>
      [] OTHER -> <<[p.handle.tmc EXCEPT !.tmc_msg = ZeroTmcMsg]>>

\* the step is a call of v4l2_rds_add that changes what the handle holds for
\* field f
Changes(f) == IsAdd /\ FieldValue(f, priv') # FieldValue(f, priv)

\* C17: a field's bit of valid_fields is set if and only if a validated value
\* was stored into the field since creation or the last reset: a call that
\* stores a new value into a field leaves the field's bit set, and no bit is
\* set before a group was decoded.
C17_ValidIffStored ==
    [][/\ \A f \in Fields : Changes(f) => f \in priv'.handle.valid_fields
       /\ glog' = <<>> => priv'.handle.valid_fields = {}]_vars

\* C19: a call of v4l2_rds_add that changes the value of a public field
\* returns a mask with the field's bit.
C19_ChangeIsReported ==
    [][\A f \in Fields : Changes(f) => f \in ret']_vars

---------------------------------------------------------------------------
(* Properties of the TMC messages (SpecMsg) *)

\* a logged 8A group carries a single-group message: SINGLE_GROUP is set and
\* TUNING_INFO is clear in the lsb of block B
IsSingleGroup(e) ==
    Is8A(e) /\ (e.b[2] \div 8) % 2 = 1 /\ (e.b[2] \div 16) % 2 = 0

\* a logged 8A group carries a group of a multi-group message: both bits clear
IsMultiGroup(e) ==
    Is8A(e) /\ (e.b[2] \div 8) % 2 = 0 /\ (e.b[2] \div 16) % 2 = 0

\* a logged group of a multi-group message is not the first group and has the
\* sequence id 0: it can complete the message
HasSequenceId0(e) == e.c[1] \div 128 = 0 /\ (e.c[1] \div 16) % 4 = 0

\* the group at place n of the log is a first reception: the 8A group right
\* before it is not the same group
FirstReception(log, n) == ~Follows8ATwin(log, n)

\* the group at place n of the log is a second reception: the 8A group right
\* before it is the same group and was a first reception
SecondReception(log, n) ==
    \E i \in 1 .. n - 1 :
        /\ Is8A(log[i])
        /\ \A j \in i + 1 .. n - 1 : ~Is8A(log[j])
        /\ SameGroup(log[i], log[n])
        /\ FirstReception(log, i)

\* the TMC message flags
TmcMessageFlags == {V4L2_RDS_TMC_SG, V4L2_RDS_TMC_MG}

\* C18: the mask a call returns holds the bit of a field only if the call
\* updated the field (it holds a new value, or a validated value, after the
\* call); the TMC_MG bit is returned only by the call that completes a
\* multi-group message and publishes it.
C18_MaskOnlyForUpdates ==
    [][IsAdd =>
          /\ \A f \in ret' : \/ FieldValue(f, priv') # FieldValue(f, priv)
                             \/ f \in priv'.handle.valid_fields
          /\ V4L2_RDS_TMC_MG \in ret' =>
                /\ Completes
                /\ IsMultiGroup(LastGroup(glog'))
                /\ HasSequenceId0(LastGroup(glog'))
                /\ V4L2_RDS_TMC_MG \in priv'.handle.valid_fields
                /\ V4L2_RDS_TMC_SG \notin priv'.handle.valid_fields]_vars

---------------------------------------------------------------------------
(* Properties of the additional fields of a multi-group message (SpecMsg) *)

\* the 28 used bits of a slot of optional_tmc, the first bit (Y11) first
SlotBits(slot) == [k \in 1 .. 28 |-> (slot \div (2 ^ (28 - k))) % 2]

\* the used bits of the slots 0 .. length - 1, as one bit array
RECURSIVE UsedBits(_, _)
UsedBits(optional, length) ==
    IF length = 0 THEN <<>>
    ELSE UsedBits(optional, length - 1) \o SlotBits(optional[length - 1])

\* the number held by the n bits of the bit array that start at offset at
RECURSIVE BitsValue(_, _, _)
BitsValue(bits, at, n) ==
    IF n = 0 THEN 0
    ELSE 2 * BitsValue(bits, at, n - 1) + bits[at + n]

\* The fields of a bit array read from offset at: a 4-bit label, then the
\* data bits of the label, again and again, until the next label or its data
\* would go beyond the end.  Fields of label 15 are left out.
RECURSIVE ReadFields(_, _)
ReadFields(bits, at) ==
    IF at + 4 > Len(bits) THEN <<>>
    ELSE IF at + 4 + additional_lut[BitsValue(bits, at, 4) + 1] > Len(bits) THEN <<>>
    ELSE (IF BitsValue(bits, at, 4) = 15 THEN <<>>
          ELSE <<[label |-> BitsValue(bits, at, 4),
                  data |-> BitsValue(bits, at + 4,
                                     additional_lut[BitsValue(bits, at, 4) + 1])]>>)
         \o ReadFields(bits, at + 4 + additional_lut[BitsValue(bits, at, 4) + 1])

\* The step completes a multi-group message: a group of a multi-group
\* message with sequence id 0 and the continuity index of the message is
\* received for the second time, and it is a second group or follows the group
\* with sequence id 1.
MessageCompleted ==
    /\ Completes
    /\ IsMultiGroup(LastGroup(glog'))
    /\ SecondReception(glog', Len(glog'))
    /\ HasSequenceId0(LastGroup(glog'))
    /\ LastGroup(glog').b[2] % 8 = priv.continuity_id
    /\ \/ (LastGroup(glog').c[1] \div 64) % 2 = 1
       \/ priv.grp_seq_id = 1

\* C21: when a multi-group message completes, the additional fields of the
\* published message are the (label, data) pairs read from the used 28 bits
\* of the slots 0 .. length - 1 taken as one bit array (a 4-bit label, then
\* additional_lut[label] data bits, across slot boundaries, label 15 left
\* out, until the next read would go beyond the last slot); TMC_MG is set and
\* TMC_SG is cleared in valid_fields.
C21_AdditionalFieldsRead ==
    [][MessageCompleted =>
          /\ priv'.handle.tmc.tmc_msg.additional
                = ReadFields(UsedBits(priv'.optional_tmc,
                                      priv'.handle.tmc.tmc_msg.length), 0)
          /\ V4L2_RDS_TMC_MG \in priv'.handle.valid_fields
          /\ V4L2_RDS_TMC_SG \notin priv'.handle.valid_fields]_vars

---------------------------------------------------------------------------
(* Properties of the steps of the block assembler (SpecAsm) *)

\* the step leaves group_cnt, resp. group_error_cnt, as it was
SameGroupCnt ==
    priv'.handle.rds_statistics.group_cnt = priv.handle.rds_statistics.group_cnt
SameGroupErrorCnt ==
    priv'.handle.rds_statistics.group_error_cnt
        = priv.handle.rds_statistics.group_error_cnt

\* the step advances the assembler by one state on the block id of the state
AdvancesAssembler ==
    /\ \/ /\ priv.decode_state = RDS_EMPTY
          /\ last'.rds_data.block = 0
          /\ priv'.decode_state = RDS_A_RECEIVED
       \/ /\ priv.decode_state = RDS_A_RECEIVED
          /\ last'.rds_data.block = 1
          /\ priv'.decode_state = RDS_B_RECEIVED
       \/ /\ priv.decode_state = RDS_B_RECEIVED
          /\ last'.rds_data.block \in {2, 4}
          /\ priv'.decode_state = RDS_C_RECEIVED
    /\ SameGroupCnt
    /\ SameGroupErrorCnt

\* the step completes a group
CompletesGroup ==
    /\ priv.decode_state = RDS_C_RECEIVED
    /\ last'.rds_data.block = 3
    /\ priv'.decode_state = RDS_EMPTY
    /\ priv'.handle.rds_statistics.group_cnt
          = priv.handle.rds_statistics.group_cnt + 1
    /\ SameGroupErrorCnt

\* the step rejects the block
RejectsBlock ==
    /\ priv'.handle.rds_statistics.group_error_cnt
          = priv.handle.rds_statistics.group_error_cnt + 1
    /\ SameGroupCnt
    /\ priv'.decode_state = RDS_EMPTY

\* the block of the step is flagged uncorrectable or has an id of 5..7
IsBadBlock ==
    \/ (last'.rds_data.block \div V4L2_RDS_BLOCK_ERROR) % 2 = 1
    \/ last'.rds_data.block % 8 \in 5 .. 7

\* C22: every call of v4l2_rds_add does exactly one of three things: it
\* advances the assembler by one state (EMPTY to A_RECEIVED on id 0,
\* A_RECEIVED to B_RECEIVED on id 1, B_RECEIVED to C_RECEIVED on id 2 or 4)
\* and leaves group_cnt and group_error_cnt; or it completes a group
\* (C_RECEIVED to EMPTY on id 3, group_cnt + 1, group_error_cnt left); or it
\* rejects the block (group_error_cnt + 1, group_cnt left, EMPTY afterwards).
\* A block flagged uncorrectable or with an id of 5..7 is rejected in every
\* state.
C22_AdvanceCompleteOrReject ==
    [][IsAdd =>
          /\ \/ AdvancesAssembler /\ ~CompletesGroup /\ ~RejectsBlock
             \/ ~AdvancesAssembler /\ CompletesGroup /\ ~RejectsBlock
             \/ ~AdvancesAssembler /\ ~CompletesGroup /\ RejectsBlock
          /\ IsBadBlock => RejectsBlock]_vars

\* C22, witness: a group was completed by four calls that advanced the
\* assembler and completed the group, and the call after it rejected a block
\* with id 7 in the state EMPTY.
C22_Witness ==
    /\ calls = 5
    /\ ~was_reset
    /\ priv.handle.rds_statistics.group_cnt = 1
    /\ priv.handle.rds_statistics.group_error_cnt = 1
    /\ last.from_state = RDS_EMPTY
    /\ last.rds_data.block = 7
    /\ priv.decode_state = RDS_EMPTY

---------------------------------------------------------------------------
(* Properties of the decoder identification (SpecDi) *)

\* a logged group has group id 0
Is0(e) == e.b[1] \div 16 = 0

\* the DI bit of a logged group 0: bit 2 of B lsb
DiBit(e) == (e.b[2] \div 4) % 2

\* the groups 0 of a log, in their order
Groups0(log) == SelectSeq(log, Is0)

\* the last four entries of a sequence of groups 0 have the segments 0, 1, 2,
\* 3 in this order
InOrderRun(g0) ==
    /\ Len(g0) >= 4
    /\ \A k \in 0 .. 3 : SegmentOf(g0[Len(g0) - 3 + k]) = k

\* the DI flags given by the DI bits of the last four entries
DiOfRun(g0) ==
    DiBit(g0[Len(g0) - 3]) * V4L2_RDS_FLAG_STEREO
    + DiBit(g0[Len(g0) - 2]) * V4L2_RDS_FLAG_ARTIFICIAL_HEAD
    + DiBit(g0[Len(g0) - 1]) * V4L2_RDS_FLAG_COMPRESSED
    + DiBit(g0[Len(g0)]) * V4L2_RDS_FLAG_STATIC_PTY

\* the step publishes or reports DI, or changes the published di
TouchesDi ==
    \/ priv'.handle.di # priv.handle.di
    \/ V4L2_RDS_DI \in ret'
    \/ V4L2_RDS_DI \in priv'.handle.valid_fields \ priv.handle.valid_fields

\* C23: the decoder identification is published (DI-valid set, DI reported
\* when di changes) only by a group 0 with segment 3 whose three preceding
\* groups 0 had the segments 0, 1, 2 in this order; the published di then
\* holds exactly the DI bits (bit 2 of B lsb) of these four groups as the
\* stereo, artificial-head, compressed and static-PTY flags.  A group 0 whose
\* segment is neither 0 nor the expected one resets the expected segment to 0
\* and clears the accumulator without touching the published di.
C23_DiAfterSegmentsInOrder ==
    [][IsAdd =>
          /\ TouchesDi =>
                Completes /\ Is0(LastGroup(glog')) /\ InOrderRun(Groups0(glog'))
          /\ Completes /\ Is0(LastGroup(glog')) /\ InOrderRun(Groups0(glog')) =>
                /\ V4L2_RDS_DI \in priv'.handle.valid_fields
                /\ priv'.handle.di = DiOfRun(Groups0(glog'))
                /\ V4L2_RDS_DI \in ret' <=> priv'.handle.di # priv.handle.di
          /\ Completes /\ Is0(LastGroup(glog'))
             /\ SegmentOf(LastGroup(glog')) \notin {0, priv.next_di_segment} =>
                /\ priv'.next_di_segment = 0
                /\ priv'.new_di = 0
                /\ ~TouchesDi]_vars

\* C23, witness: the segments 0, 1, 2, 3 with the DI bits 1, 1, 0, 1 published
\* di with the stereo, artificial-head and static-PTY flags, and a segment 2
\* out of order then cleared the accumulator and left di.
C23_Witness ==
    /\ air = <<>>
    /\ Len(glog) = 5
    /\ \A k \in 1 .. 5 : Is0(glog[k])
    /\ V4L2_RDS_DI \in glog[4].mask
    /\ SegmentOf(glog[5]) = 2
    /\ priv.handle.di = V4L2_RDS_FLAG_STEREO + V4L2_RDS_FLAG_ARTIFICIAL_HEAD
                        + V4L2_RDS_FLAG_STATIC_PTY
    /\ V4L2_RDS_DI \in priv.handle.valid_fields
    /\ priv.new_di = 0
    /\ priv.next_di_segment = 0

---------------------------------------------------------------------------
(* Properties of the LF/MF alternative frequencies (SpecLf) *)

\* the LF/MF frequency of a code, in Hz
LfMfFrequency(c) == IF c > 15 THEN 531000 + c * 9000 ELSE 152000 + c * 9000

\* the step completes a 0A group whose C msb is 250 and whose C lsb is a code
\* other than 0, while the AF set has room
GivesLfMf ==
    /\ Completes
    /\ Is0A(LastGroup(glog'))
    /\ LastGroup(glog').c[1] = 250
    /\ LastGroup(glog').c[2] # 0
    /\ priv.handle.rds_af.size < MAX_AF_CNT
    /\ priv.handle.rds_af.size < priv.handle.rds_af.announced_af

---------------------------------------------------------------------------
(* Properties of the order of the radio text segments (SpecText) *)

\* The group at place n of the log is a group 2 with segment k that came in
\* ascending order: k is 0, or a group 2 with segment k - 1 came in ascending
\* order before it and every group 2 between the two has the same text flag
\* and a segment that is neither 0 nor k.
RECURSIVE AscendsTo(_, _, _)
AscendsTo(log, n, k) ==
    /\ Is2(log[n])
    /\ RtSegment(log[n]) = k
    /\ k # 0 =>
          \E m \in 1 .. n - 1 :
              /\ AscendsTo(log, m, k - 1)
              /\ RtFlag(log[m]) = RtFlag(log[n])
              /\ \A j \in m + 1 .. n - 1 :
                    Is2(log[j]) => /\ RtFlag(log[j]) = RtFlag(log[n])
                                   /\ RtSegment(log[j]) \notin {0, k}

\* the length of a full text of the version of a logged group 2
FullLength(e) == IF Is2A(e) THEN 64 ELSE 32

\* the step completes a group 2 and stores its chars into the pending text
\* or moves the next expected segment
StoresSegment ==
    /\ Completes
    /\ Is2(LastGroup(glog'))
    /\ \/ priv'.new_rt # priv.new_rt
       \/ priv'.next_rt_segment # priv.next_rt_segment

\* the step completes a group 2 and publishes a text of full length
PublishesFullText ==
    /\ Completes
    /\ Is2(LastGroup(glog'))
    /\ V4L2_RDS_RT \in priv'.handle.valid_fields
    /\ priv'.handle.rt_length = FullLength(LastGroup(glog'))
    /\ \/ V4L2_RDS_RT \notin priv.handle.valid_fields
       \/ priv'.handle.rt_length # priv.handle.rt_length
       \/ priv'.handle.rt # priv.handle.rt
       \/ V4L2_RDS_RT \in ret'

\* C25: a segment of a group 2 is stored only if its segment code is 0 or
\* the next expected segment; when the text flag does not change, any other
\* segment leaves the pending text, the next expected segment, rt, rt_length
\* and the RT bit of valid_fields as they were.  A text of full length
\* (rt_length 64 for version A, 32 for version B) is published only by a
\* group with segment 15 that was preceded, since the last accepted segment
\* 0, by the segments 1 .. 14 accepted in ascending order.
C25_SegmentsInOrder ==
    [][IsAdd =>
          /\ StoresSegment /\ ~FlagTransition =>
                RtSegment(LastGroup(glog')) \in {0, priv.next_rt_segment}
          /\ StoresSegment /\ FlagTransition /\ priv'.new_rt # priv.new_rt =>
                RtSegment(LastGroup(glog')) = 0
          /\ Completes /\ Is2(LastGroup(glog')) /\ ~FlagTransition
             /\ RtSegment(LastGroup(glog')) \notin {0, priv.next_rt_segment} =>
                /\ priv'.new_rt = priv.new_rt
                /\ priv'.next_rt_segment = priv.next_rt_segment
                /\ priv'.handle.rt = priv.handle.rt
                /\ priv'.handle.rt_length = priv.handle.rt_length
                /\ (V4L2_RDS_RT \in priv'.handle.valid_fields)
                      = (V4L2_RDS_RT \in priv.handle.valid_fields)
          /\ PublishesFullText => AscendsTo(glog', Len(glog'), 15)]_vars

\* C25, witness: a text 2A was published with rt_length 64 by segment 15,
\* the 17th group, after segment 5 had come between the segments 1 and 2 and
\* had been left out.
C25_Witness ==
    /\ air = <<>>
    /\ Len(glog) = 17
    /\ RtSegment(glog[3]) = 5
    /\ RtSegment(glog[17]) = 15
    /\ Is2A(glog[17])
    /\ V4L2_RDS_RT \in ret
    /\ priv.handle.rt_length = 64
    /\ V4L2_RDS_RT \in priv.handle.valid_fields
    /\ priv.handle.rt[8] = 65
    /\ priv.handle.rt[63] = 68
    /\ priv.next_rt_segment = 0

---------------------------------------------------------------------------
(* Properties of the groups of a multi-group message (SpecMg) *)

\* first group indicator, second group indicator, sequence id and continuity
\* index of a logged group of a multi-group message
IsFirstGroup(e) == e.c[1] \div 128 = 1
IsSecondGroup(e) == ~IsFirstGroup(e) /\ (e.c[1] \div 64) % 2 = 1
SequenceId(e) == (e.c[1] \div 16) % 4
ContinuityId(e) == e.b[2] % 8

\* the 28 bits a logged group gives to a slot: bits 0..11 of block C and
\* block D
SlotOf(e) == (e.c[1] % 16) * 16777216 + e.c[2] * 65536 + e.d[1] * 256 + e.d[2]

\* the step completes the second reception of a group of a multi-group message
ValidatedMultiGroup ==
    /\ Completes
    /\ IsMultiGroup(LastGroup(glog'))
    /\ SecondReception(glog', Len(glog'))

\* the step accepts a second group: its continuity index is the recorded one
AcceptsSecond ==
    /\ ValidatedMultiGroup
    /\ IsSecondGroup(LastGroup(glog'))
    /\ ContinuityId(LastGroup(glog')) = priv.continuity_id

\* the step accepts a subsequent group: its continuity index is the recorded
\* one and its sequence id is one less than the recorded one
AcceptsSubsequent ==
    /\ ValidatedMultiGroup
    /\ ~IsFirstGroup(LastGroup(glog'))
    /\ ~IsSecondGroup(LastGroup(glog'))
    /\ ContinuityId(LastGroup(glog')) = priv.continuity_id
    /\ SequenceId(LastGroup(glog')) = priv.grp_seq_id - 1

\* the step publishes a multi-group message
PublishesMultiGroup ==
    \/ V4L2_RDS_TMC_MG \in priv'.handle.valid_fields \ priv.handle.valid_fields
    \/ /\ priv'.handle.tmc.tmc_msg # priv.handle.tmc.tmc_msg
       /\ ~(Completes /\ IsSingleGroup(LastGroup(glog')))

\* C26: a multi-group message is completed and published only by a validated
\* 8A group with sequence id 0 that is a second group with the recorded
\* continuity index, or a subsequent group with the recorded continuity index
\* and a sequence id one less than that of the group accepted before.  An
\* accepted second group fills slot 0 and sets the length to 1, an accepted
\* subsequent group fills the slot of index length and adds 1 to the length.
\* A group that is not a first group and fails these conditions, and a group
\* not yet validated, leave the staging message, the slots, the length and
\* the recorded sequence id and continuity index as they were.
C26_MultiGroupCompletion ==
    [][IsAdd =>
          /\ PublishesMultiGroup =>
                /\ AcceptsSecond \/ AcceptsSubsequent
                /\ SequenceId(LastGroup(glog')) = 0
                /\ [priv'.handle.tmc.tmc_msg EXCEPT !.additional = <<>>]
                      = [priv'.new_tmc_msg EXCEPT !.additional = <<>>]
          /\ AcceptsSecond =>
                /\ priv'.optional_tmc
                      = [priv.optional_tmc EXCEPT ![0] = SlotOf(LastGroup(glog'))]
                /\ priv'.new_tmc_msg = [priv.new_tmc_msg EXCEPT !.length = 1]
                /\ priv'.grp_seq_id = SequenceId(LastGroup(glog'))
          /\ AcceptsSubsequent =>
                /\ priv'.optional_tmc
                      = [priv.optional_tmc EXCEPT ![priv.new_tmc_msg.length]
                                                    = SlotOf(LastGroup(glog'))]
                /\ priv'.new_tmc_msg
                      = [priv.new_tmc_msg EXCEPT !.length = priv.new_tmc_msg.length + 1]
                /\ priv'.grp_seq_id = SequenceId(LastGroup(glog'))
          /\ (AcceptsSecond \/ AcceptsSubsequent)
             /\ SequenceId(LastGroup(glog')) = 0 =>
                /\ V4L2_RDS_TMC_MG \in priv'.handle.valid_fields
                /\ [priv'.handle.tmc.tmc_msg EXCEPT !.additional = <<>>]
                      = [priv'.new_tmc_msg EXCEPT !.additional = <<>>]
          /\ ~AcceptsSecond /\ ~AcceptsSubsequent
             /\ ~(ValidatedMultiGroup /\ IsFirstGroup(LastGroup(glog'))) =>
                /\ priv'.new_tmc_msg = priv.new_tmc_msg
                /\ priv'.optional_tmc = priv.optional_tmc
                /\ priv'.grp_seq_id = priv.grp_seq_id
                /\ priv'.continuity_id = priv.continuity_id]_vars

\* C26, witness: the first group, the second group with sequence id 1 and
\* the subsequent group with sequence id 0 were each received twice, the
\* subsequent group with sequence id 2 was received twice before the last and
\* left the staging; the message was published with two slots.
C26_Witness ==
    /\ air = <<>>
    /\ Len(glog) = 8
    /\ IsFirstGroup(glog[2])
    /\ IsSecondGroup(glog[4]) /\ SequenceId(glog[4]) = 1
    /\ SequenceId(glog[6]) = 2 /\ ~IsSecondGroup(glog[6]) /\ ~IsFirstGroup(glog[6])
    /\ SequenceId(glog[8]) = 0 /\ ~IsSecondGroup(glog[8]) /\ ContinuityId(glog[8]) = 1
    /\ SecondReception(glog, 8)
    /\ V4L2_RDS_TMC_MG \in priv.handle.valid_fields
    /\ priv.handle.tmc.tmc_msg.length = 2
    /\ priv.handle.tmc.tmc_msg.event = 5
    /\ priv.optional_tmc[0] = SlotOf(glog[4])
    /\ priv.optional_tmc[1] = SlotOf(glog[8])
    /\ priv.grp_seq_id = 0

---------------------------------------------------------------------------
(* Properties of the TMC system parameters (SpecSys) *)

\* a logged group is a 3A group that announces TMC
Is3ATmc(e) == Is3A(e) /\ OdaAid(e) \in {52550, 52551}

\* the 3A groups of a log that announce TMC, in their order
TmcAnnouncements(log) == SelectSeq(log, Is3ATmc)

\* the last of a sequence of groups is the same group as the one before it
RepeatsPrevious(groups) ==
    /\ Len(groups) >= 2
    /\ SameGroup(groups[Len(groups)], groups[Len(groups) - 1])

\* the variant code of a logged 3A group: bits 14..15 of block C
VariantCode(e) == e.c[1] \div 64

\* the system parameters of the TMC state
SystemParameters(p) == [p.handle.tmc EXCEPT !.tmc_msg = ZeroTmcMsg]

\* the step completes a 3A group that announces TMC; validated: the group
\* repeats the previous such group
Announces3ATmc == Completes /\ Is3ATmc(LastGroup(glog'))
Validated3ATmc == Announces3ATmc /\ RepeatsPrevious(TmcAnnouncements(glog'))

\* the system parameters p after a validated group e of variant 0, 1, 2 or 3
AfterVariant(p, e) ==
    CASE VariantCode(e) = 0 ->
           [p EXCEPT !.ltn = (e.c[1] % 16) * 4 + e.c[2] \div 64,
                     !.afi = ((e.c[2] \div 32) % 2 = 1),
                     !.enhanced_mode = ((e.c[2] \div 16) % 2 = 1),
                     !.mgs = e.c[2] % 16]
      [] VariantCode(e) = 1 /\ ~p.enhanced_mode ->
           [p EXCEPT !.gap = (e.c[1] \div 16) % 4,
                     !.sid = (e.c[1] % 16) * 4 + e.c[2] \div 64]
      [] VariantCode(e) = 1 /\ p.enhanced_mode ->
           [p EXCEPT !.gap = (e.c[1] \div 16) % 4,
                     !.sid = (e.c[1] % 16) * 4 + e.c[2] \div 64,
                     !.t_a = (e.c[2] \div 16) % 4,
                     !.t_w = (e.c[2] \div 4) % 4,
                     !.t_d = e.c[2] % 4]
      [] OTHER -> p

\* C27: the TMC system parameters change only on a 3A group with the AID
\* 0xCD46 or 0xCD47 that is identical to the previous such group.  On such a
\* validated group, variant 0 sets ltn, afi, enhanced_mode and mgs; variant 1
\* sets gap and sid and, only if enhanced_mode is set at that time, t_a, t_w
\* and t_d; the variants 2 and 3 change no parameter.  A first reception only
\* updates the pending group.
C27_SystemParametersOnTwin ==
    [][IsAdd =>
          /\ SystemParameters(priv') # SystemParameters(priv) => Validated3ATmc
          /\ Validated3ATmc =>
                SystemParameters(priv')
                   = AfterVariant(SystemParameters(priv), LastGroup(glog'))
          /\ Announces3ATmc /\ ~Validated3ATmc =>
                /\ SystemParameters(priv') = SystemParameters(priv)
                /\ priv'.prev_tmc_sys_group = priv'.rds_group
                /\ priv'.prev_tmc_sys_group # priv.prev_tmc_sys_group]_vars

\* C27, witness: variant 0 was received twice and set the enhanced mode, then
\* variant 1 was received twice and set gap, sid and the timing parameters.
C27_Witness ==
    /\ air = <<>>
    /\ Len(glog) = 4
    /\ VariantCode(glog[2]) = 0
    /\ VariantCode(glog[4]) = 1
    /\ SameGroup(glog[3], glog[4])
    /\ priv.handle.tmc.ltn = 5
    /\ priv.handle.tmc.afi
    /\ priv.handle.tmc.enhanced_mode
    /\ priv.handle.tmc.mgs = 9
    /\ priv.handle.tmc.gap = 2
    /\ priv.handle.tmc.sid = 7
    /\ priv.handle.tmc.t_a = 1
    /\ priv.handle.tmc.t_w = 2
    /\ priv.handle.tmc.t_d = 3

---------------------------------------------------------------------------
(* Properties of the groups without a decoder (SpecIdle) *)

\* the group id of a logged group
GroupIdOf(e) == e.b[1] \div 16

\* the flags the decoding of the blocks A and B can set and return
PreDecoderFlags == {V4L2_RDS_PI, V4L2_RDS_PTY, V4L2_RDS_TP}

\* The private state without the statistics, the assembler state and raw
\* blocks, the stored group and what the decoding of the blocks A and B
\* handles: PI, PTY and TP, their pending values and their flags.
BeyondPreDecoder(p) ==
    [DecodedState(p) EXCEPT
        !.rds_group = ZeroGroup,
        !.new_pi = 0,
        !.new_pty = 0,
        !.handle.pi = 0,
        !.handle.pty = 0,
        !.handle.tp = FALSE,
        !.handle.valid_fields = @ \ PreDecoderFlags]

\* C28: a completed group with the group id 5, 6, 7, 9 or 11..15 increments
\* group_cnt and the counter of its group type, and no group decoder runs:
\* apart from the statistics, the stored group and the PI, PTY and TP handling
\* of the blocks A and B, no public field, no bit of valid_fields and no
\* pending buffer changes, and the mask returned holds at most PI, PTY and TP.
C28_NoDecoderForOtherGroups ==
    [][Completes /\ GroupIdOf(LastGroup(glog')) \in UndecodedIds =>
          /\ priv'.handle.rds_statistics.group_cnt
                = priv.handle.rds_statistics.group_cnt + 1
          /\ priv'.handle.rds_statistics.group_type_cnt
                = [priv.handle.rds_statistics.group_type_cnt
                      EXCEPT ![GroupIdOf(LastGroup(glog'))] = @ + 1]
          /\ priv'.rds_group.group_id = GroupIdOf(LastGroup(glog'))
          /\ BeyondPreDecoder(priv') = BeyondPreDecoder(priv)
          /\ ret' \subseteq PreDecoderFlags]_vars

\* C28, witness: after the 0A group and the first reception of the TMC
\* message, a group 9A was completed: it was counted and left the PS chars,
\* the AF set and the pending TMC group.
C28_Witness ==
    /\ air = <<>>
    /\ Len(glog) = 3
    /\ GroupIdOf(glog[1]) = 0
    /\ GroupIdOf(glog[2]) = 8
    /\ GroupIdOf(glog[3]) = 9
    /\ priv.handle.rds_statistics.group_cnt = 3
    /\ priv.handle.rds_statistics.group_type_cnt[9] = 1
    /\ priv.handle.rds_af.af = <<93900000>>
    /\ priv.new_ps[0] = 66
    /\ priv.prev_tmc_group.group_id = 8
    /\ priv.rds_group.group_id = 9
    /\ ret = {}

---------------------------------------------------------------------------
(* Properties of the program type name (SpecPtyn) *)

\* a logged group is a group 10A; its segment, its A/B flag and its four chars
Is10A(e) == e.b[1] \div 8 = 20
PtynSegment(e) == e.b[2] % 2
PtynFlag(e) == (e.b[2] \div 16) % 2 = 1
PtynChars(e) == [i \in 0 .. 3 |-> <<e.c[1], e.c[2], e.d[1], e.d[2]>>[i + 1]]

\* the A/B flag stored before the group at place n of the log: the flag of
\* the group 10A before it, FALSE if there is none
RECURSIVE FlagBefore(_, _)
FlagBefore(log, n) ==
    IF n <= 1 THEN FALSE
    ELSE IF Is10A(log[n - 1]) THEN PtynFlag(log[n - 1])
    ELSE FlagBefore(log, n - 1)

\* the places of the log where a group 10A changed the A/B flag, and 1
FlagChanges(log) ==
    {1} \cup {n \in 1 .. Len(log) :
                 Is10A(log[n]) /\ PtynFlag(log[n]) # FlagBefore(log, n)}

\* the places, from the last change of the A/B flag on, of the groups 10A
\* with segment h
Receptions(log, h) ==
    {n \in 1 .. Len(log) :
        /\ Is10A(log[n])
        /\ PtynSegment(log[n]) = h
        /\ \A k \in FlagChanges(log) : k <= n}

\* the last two receptions of segment h since the last change of the A/B
\* flag carry the same chars
ReceivedTwice(log, h) ==
    \E i, j \in Receptions(log, h) :
        /\ i < j
        /\ \A k \in Receptions(log, h) : k <= i \/ k = j
        /\ PtynChars(log[i]) = PtynChars(log[j])

\* the step completes a group 10A whose A/B flag differs from the stored one
PtynFlagTransition ==
    /\ Completes
    /\ Is10A(LastGroup(glog'))
    /\ PtynFlag(LastGroup(glog')) # priv.handle.ptyn_ab_flag

\* C29: a group 10A whose A/B flag differs from the stored one clears ptyn,
\* the staging halves (the half of its segment then takes its chars), both
\* validity flags and the PTYN bit of valid_fields, and reports PTYN.  A half
\* is valid only after two consecutive receptions of its segment with the
\* same four bytes since the last change of the A/B flag; ptyn is published
\* (PTYN bit set) only when both halves are valid and is then the staging
\* half 0 followed by the staging half 1.  A reception that differs from the
\* staging half overwrites the half and clears the validity flag of this
\* half only.
C29_PtynAfterTwoReceptions ==
    [][Completes /\ Is10A(LastGroup(glog')) =>
          /\ PtynFlagTransition =>
                /\ priv'.handle.ptyn = [i \in 0 .. 7 |-> 0]
                /\ priv'.new_ptyn[1 - PtynSegment(LastGroup(glog'))]
                      = [i \in 0 .. 3 |-> 0]
                /\ priv'.new_ptyn[PtynSegment(LastGroup(glog'))]
                      = PtynChars(LastGroup(glog'))
                /\ priv'.new_ptyn_valid = [h \in 0 .. 1 |-> FALSE]
                /\ V4L2_RDS_PTYN \notin priv'.handle.valid_fields
                /\ V4L2_RDS_PTYN \in ret'
          /\ \A h \in 0 .. 1 : priv'.new_ptyn_valid[h] => ReceivedTwice(glog', h)
          /\ V4L2_RDS_PTYN \in priv'.handle.valid_fields =>
                /\ priv'.new_ptyn_valid[0] /\ priv'.new_ptyn_valid[1]
                /\ priv'.handle.ptyn
                      = [i \in 0 .. 7 |-> IF i < 4 THEN priv'.new_ptyn[0][i]
                                          ELSE priv'.new_ptyn[1][i - 4]]
          /\ ~PtynFlagTransition
             /\ PtynChars(LastGroup(glog'))
                   # priv.new_ptyn[PtynSegment(LastGroup(glog'))] =>
                /\ priv'.new_ptyn
                      = [priv.new_ptyn EXCEPT ![PtynSegment(LastGroup(glog'))]
                                                 = PtynChars(LastGroup(glog'))]
                /\ priv'.new_ptyn_valid
                      = [priv.new_ptyn_valid
                            EXCEPT ![PtynSegment(LastGroup(glog'))] = FALSE]]_vars

---------------------------------------------------------------------------
(* Properties of the local time (SpecSlow) *)

\* a logged group is a group 4A; its UTC hour and minute and its local time
\* offset in half hours, negative when bit 5 of the offset is set
Is4A(e) == e.b[1] \div 8 = 8
UtcHour(e) == (e.c[2] % 2) * 16 + e.d[1] \div 16
UtcMinute(e) == (e.d[1] % 16) * 4 + e.d[2] \div 64
HalfHours(e) ==
    IF (e.d[2] \div 32) % 2 = 1 THEN -(e.d[2] % 32) ELSE e.d[2] % 32

\* C30: for a validated 4A group, the local hour and minute handed to the
\* calendar conversion are the UTC hour and minute plus the signed offset in
\* half hours (bits 0..4 of the offset times 30 minutes, subtracted when bit
\* 5 is set), without a wrap-around of the hour or the minute at 8 bits, and
\* the GMT offset stored is this signed number of half hours in seconds.
C30_LocalTimeFromOffset ==
    [][Completes /\ Is4A(LastGroup(glog')) /\ V4L2_RDS_TIME \in ret' =>
          /\ priv'.handle.time.tm_hour * 60 + priv'.handle.time.tm_min
                = UtcHour(LastGroup(glog')) * 60 + UtcMinute(LastGroup(glog'))
                  + HalfHours(LastGroup(glog')) * 30
          /\ priv'.handle.time.tm_gmtoff
                = [wraps |-> 0, rest |-> HalfHours(LastGroup(glog')) * 1800]]_vars

---------------------------------------------------------------------------
(* Properties of the resynchronisation of the assembler (SpecSync) *)

\* the number of complete groups the decoder p has counted
GroupCnt(p) == p.handle.rds_statistics.group_cnt

\* the number of group errors the decoder p has counted
GroupErrorCnt(p) == p.handle.rds_statistics.group_error_cnt

\* the call of this step completes a group
EmitsGroup ==
    /\ GroupCnt(priv') = GroupCnt(priv) + 1
    /\ Len(glog') = Len(glog) + 1

\* C31: the call that ends a contiguous run of four clean blocks A, B, C or
\* C', D completes a group if and only if the assembler was in RDS_EMPTY when
\* the A block of the run arrived.  When it was not, the A block is rejected
\* and is not taken as the first block of a group (the assembler goes to
\* RDS_EMPTY, not to RDS_A_RECEIVED), the four blocks are counted as four
\* group errors, no group is completed, and the assembler is in RDS_EMPTY
\* after the run, so that a clean run that follows at once completes a group.
C31_Resynchronisation ==
    [][IsAdd =>
          /\ (run' = 1 /\ priv.decode_state # RDS_EMPTY) =>
                /\ priv'.decode_state = RDS_EMPTY
                /\ GroupErrorCnt(priv') = GroupErrorCnt(priv) + 1
          /\ run' = 4 =>
                /\ EmitsGroup <=> start'.state = RDS_EMPTY
                /\ start'.state # RDS_EMPTY =>
                      /\ GroupErrorCnt(priv') = start'.error_cnt + 4
                      /\ GroupCnt(priv') = start'.group_cnt
                      /\ ret' = {}
                      /\ glog' = glog
                /\ priv'.decode_state = RDS_EMPTY
                /\ start'.after = "rejected" => EmitsGroup]_vars

\* C31, witness: a clean run has just completed a group, and the call before
\* its A block ended a clean run whose A block had found the assembler out
\* of RDS_EMPTY and whose four blocks were counted as group errors.
C31_Witness ==
    /\ last.op = "add"
    /\ run = 4
    /\ start.state = RDS_EMPTY
    /\ start.after = "rejected"
    /\ start.error_cnt = 4
    /\ GroupErrorCnt(priv) = 4
    /\ GroupCnt(priv) = 1
    /\ Len(glog) = 1

---------------------------------------------------------------------------
(* Properties of the first group of a multi-group message (SpecCi) *)

\* the group log[i] is a first group of a multi-group message that
\* rds_decode_tmc_multi_group has decoded: the call that completed it returned
\* V4L2_RDS_TMC_MG, which that function alone returns
ValidatedFirstGroup(log, i) ==
    /\ IsMultiGroup(log[i])
    /\ IsFirstGroup(log[i])
    /\ V4L2_RDS_TMC_MG \in log[i].mask

\* C32: a multi-group message is published only if, since the creation or the
\* last reset, a first group with the continuity index of the publishing
\* group was validated and no other first group was validated after it; a
\* second group with sequence id 0 on a fresh decoder publishes nothing.
C32_PublishedOnlyAfterFirstGroup ==
    [][IsAdd /\ PublishesMultiGroup =>
          \E i \in 1 .. Len(glog) :
              /\ ValidatedFirstGroup(glog, i)
              /\ ContinuityId(glog[i]) = ContinuityId(LastGroup(glog'))
              /\ \A j \in i + 1 .. Len(glog) : ~ValidatedFirstGroup(glog, j)]_vars

---------------------------------------------------------------------------
(* Properties of the optional slots of a multi-group message (SpecSlot) *)

\* the slot count of the staging message of the decoder p
StagingLength(p) == p.new_tmc_msg.length

\* the staging of the decoder p fits the four-entry buffer optional_tmc
WithinBuffer(p) ==
    /\ DOMAIN p.optional_tmc = 0 .. 3
    /\ StagingLength(p) \in 0 .. 4
    /\ StagingLength(p) + p.grp_seq_id <= 4

\* C33: in every reachable state the slot count of the staging message is at
\* most 4 and the slot count plus the recorded sequence id is at most 4; a
\* call that stores a slot (a subsequent group, which counts one slot more,
\* stores at the index of the old slot count; a second group stores at index
\* 0) stores it at an index in 0..3 of optional_tmc.
C33_SlotsWithinBuffer ==
    /\ []WithinBuffer(priv)
    /\ [][IsAdd /\ StagingLength(priv') = StagingLength(priv) + 1 =>
             /\ StagingLength(priv) \in 0 .. 3
             /\ \/ priv'.optional_tmc[StagingLength(priv)] = SlotOf(LastGroup(glog'))
                \/ priv'.optional_tmc[0] = SlotOf(LastGroup(glog'))]_vars

\* C33, witness: the first group, the second group with sequence id 3 and the
\* subsequent groups with sequence ids 2, 1 and 0 were each received twice;
\* the four slots are filled, the last at index 3, and the message was
\* published with length 4.
C33_Witness ==
    /\ air = <<>>
    /\ Len(glog) = 10
    /\ IsFirstGroup(glog[2])
    /\ IsSecondGroup(glog[4]) /\ SequenceId(glog[4]) = 3
    /\ SequenceId(glog[6]) = 2
    /\ SequenceId(glog[8]) = 1
    /\ SequenceId(glog[10]) = 0
    /\ StagingLength(priv) = 4
    /\ priv.grp_seq_id = 0
    /\ priv.optional_tmc[0] = SlotOf(glog[4])
    /\ priv.optional_tmc[3] = SlotOf(glog[10])
    /\ priv.handle.tmc.tmc_msg.length = 4
    /\ V4L2_RDS_TMC_MG \in priv.handle.valid_fields

====
